---------------------------- MODULE Spec2Model ----------------------------
(***************************************************************************)
(* Verification model of the TPO placement-tracking front end.             *)
(*                                                                         *)
(*   SpecAuth   the session holder (AuthProvider): token restore, login,   *)
(*              signup, logout and the profile page's use of setUser.      *)
(*   SpecPage   the session holder together with the pages that offer      *)
(*              mutation controls (placement detail, add and edit page).   *)
(*   SpecNormalize      getSelectionsByPlacementId on any response body.   *)
(*   SpecSelectionForm  the add and edit selection dialogs with all their  *)
(*                      inputs, on a placement with two records.           *)
(*   SpecSelections     the Final Selections card: fetches, the list, the  *)
(*                      add, update and delete mutations.                  *)
(*   SpecForms          the eight forms: resolver, handleSubmit, request.  *)
(*   SpecMutations      the mutations of the detail, add and edit pages:   *)
(*                      requests, success and error handlers, the query    *)
(*                      cache, the confirmation dialogs.                   *)
(*   SpecPayload        the comma-separated fields of the placement forms: *)
(*                      text typed, payload sent, list shown again.        *)
(*   SpecDetail         PlacementDetailPage: fetchPlacementDetails, the    *)
(*                      route id, the update handlers and their refetch.   *)
(*   SpecDetailLive     SpecDetail with every request and fetch answered.  *)
(*   SpecEdit           EditPlacementPage: the placement query, the effect *)
(*                      that resets the form, the save.                    *)
(*   SpecSubmit         the submit buttons and the flags disabling them.   *)
(*   SpecNotes          the additionalNotes text of the interview forms.   *)
(*                                                                         *)
(* JavaScript runs every handler to completion, so one action is one       *)
(* synchronous stretch of a handler: from its start to its first await,    *)
(* or from the resumption after an await to its end.  A request that is    *)
(* awaited is a message in flight; its answer is chosen by the server.     *)
(***************************************************************************)
EXTENDS Integers, Sequences, FiniteSets, Bags, TLC

(***************************************************************************)
(* Bounds                                                                  *)
(***************************************************************************)
\* auth requests (getMe, login, signup) that may be outstanding at once
MaxInFlight == 2

\* student entries one selection form may hold
MaxStudents == 2

\* selection records one response may carry
MaxRecords == 2

(***************************************************************************)
(* Values                                                                  *)
(***************************************************************************)
\* JavaScript null for a token (localStorage.getItem of a missing key)
NoToken == "null"

\* bearer tokens the backend may issue
Tokens == {"tokA", "tokS"}

\* JavaScript null for the user
NoUser == [kind |-> "null", name |-> "", role |-> ""]

\* a user object {id, name, email, role}
UserObj(n, r) == [kind |-> "user", name |-> n, role |-> r]

\* the account a token belongs to
UserOf(t) == IF t = "tokA" THEN UserObj("asha", "admin") ELSE UserObj("sam", "student")

\* the body of GET /auth/me: an object {user: U}
MeBody(u) == [kind |-> "body", name |-> u.name, role |-> u.role]

\* user?.role : the role property read off whatever object is held
RoleOf(u) == IF u.kind = "user" THEN u.role ELSE "undefined"

\* isAuthenticated: !!user
IsAuthenticated(u) == u.kind # "null"

(***************************************************************************)
(* Text and list helpers (JavaScript string and array methods)             *)
(***************************************************************************)
\* a string is a sequence of one-character strings; "" is << >>

\* whitespace as String.prototype.trim knows it
IsSpace(c) == c \in {" ", "\n", "\t"}

RECURSIVE TrimStart(_)
TrimStart(s) == IF s # << >> /\ IsSpace(Head(s)) THEN TrimStart(Tail(s)) ELSE s

RECURSIVE TrimEnd(_)
TrimEnd(s) == IF s # << >> /\ IsSpace(s[Len(s)]) THEN TrimEnd(SubSeq(s, 1, Len(s) - 1)) ELSE s

\* s.trim()
Trim(s) == TrimEnd(TrimStart(s))

\* s.split(sep) for a one-character separator: always at least one piece
RECURSIVE SplitAcc(_, _, _)
SplitAcc(s, sep, cur) ==
  IF s = << >> THEN <<cur>>
  ELSE IF Head(s) = sep THEN <<cur>> \o SplitAcc(Tail(s), sep, << >>)
  ELSE SplitAcc(Tail(s), sep, Append(cur, Head(s)))

Split(s, sep) == SplitAcc(s, sep, << >>)

\* xs.map(s => s.trim())
MapTrim(xs) == [i \in 1..Len(xs) |-> Trim(xs[i])]

\* xs.filter(s => s): keeps the non-empty strings
RECURSIVE FilterNonEmpty(_)
FilterNonEmpty(xs) ==
  IF xs = << >> THEN << >>
  ELSE IF Head(xs) # << >> THEN <<Head(xs)>> \o FilterNonEmpty(Tail(xs))
  ELSE FilterNonEmpty(Tail(xs))

\* s.split(sep).map(s => s.trim()).filter(s => s)
SplitTrimFilter(s, sep) == FilterNonEmpty(MapTrim(Split(s, sep)))

\* JavaScript undefined, for an optional payload field
Undefined == "undefined"

(***************************************************************************)
(* Selection listing: getSelectionsByPlacementId                           *)
(***************************************************************************)
\* a JSON value: its kind t and, for an object, its _id, for an array, the
\* _ids of its elements (the elements of a selections array are records)
Json(t, v) == [t |-> t, v |-> v]

\* a field the body does not carry
Absent == Json("undefined", << >>)

\* a selection record with the given _id
Obj(id) == Json("object", <<id>>)

\* the array as a JavaScript list of its records
Elements(a) == [i \in 1..Len(a.v) |-> Obj(a.v[i])]

\* record ids a response may carry
RecordIds == 1..MaxRecords

\* arrays of at most MaxRecords records
JsonArrays == {Json("array", ids) : ids \in UNION {[1..n -> RecordIds] : n \in 0..MaxRecords}}

\* the values a field of the response body may hold
JsonValues ==
  {Absent, Json("null", << >>), Json("emptyString", << >>), Json("string", << >>),
   Json("zero", << >>), Json("number", << >>), Json("false", << >>), Json("true", << >>)}
  \cup {Obj(id) : id \in RecordIds} \cup JsonArrays

\* Array.isArray(x)
IsArray(x) == x.t = "array"

\* typeof x === 'object'
TypeofObject(x) == x.t \in {"object", "array", "null"}

\* the truthiness of x in a condition
Truthy(x) == x.t \notin {"undefined", "null", "emptyString", "zero", "false"}

\* getSelectionsByPlacementId with the singular fallback tried first
getSelectionsByPlacementId_SingularFirst(data) ==
  IF Truthy(data.selection) /\ TypeofObject(data.selection) THEN <<data.selection>>
  ELSE IF IsArray(data.selections) THEN Elements(data.selections)
  ELSE << >>

\* getSelectionsByPlacementId applied to response.data
getSelectionsByPlacementId(data) ==
  IF IsArray(data.selections) THEN Elements(data.selections)
  ELSE IF Truthy(data.selection) /\ TypeofObject(data.selection) THEN <<data.selection>>
  ELSE << >>

(***************************************************************************)
(* Selection records: schema, form data, submit handlers                   *)
(***************************************************************************)
\* one entry of the selectedStudents field array (sid "" is a missing _id)
StudentEntry(i, n, r, b) == [sid |-> i, name |-> n, rollno |-> r, branch |-> b]

\* append({ name: '', rollno: '', branch: '' })
BlankStudent == StudentEntry("", "", "", "")

\* what the user may type into one student row
StudentInputs ==
  {BlankStudent, StudentEntry("", "n", "r1", "b"), StudentEntry("", "n", "r2", "b"),
   StudentEntry("", "n", "", "b"), StudentEntry("", "", "r1", "")}

\* what the user may type into the two text areas
TextInputs == { << >>, <<"a", "\n", " ", "\n", " ", "b">> }

\* what the user may type into the document link input
LinkInputs == {"", "not a url", "https://doc"}

\* z.string().url(): the strings the URL parser accepts
IsUrl(s) == s \in {"https://doc", "https://site"}

FieldError(f, i, m) == [field |-> f, index |-> i, msg |-> m]

\* selectedStudentSchema with rollno declared as a plain z.string()
selectedStudentSchema_RollnoUnchecked(st, i) ==
       (IF st.name = "" THEN {FieldError("name", i, "Name is required")} ELSE {})
  \cup (IF st.branch = "" THEN {FieldError("branch", i, "Branch is required")} ELSE {})

\* selectedStudentSchema applied to entry i
selectedStudentSchema(st, i) ==
       (IF st.name = "" THEN {FieldError("name", i, "Name is required")} ELSE {})
  \cup (IF st.rollno = "" THEN {FieldError("rollno", i, "Roll number is required")} ELSE {})
  \cup (IF st.branch = "" THEN {FieldError("branch", i, "Branch is required")} ELSE {})

\* selectionSchema without the per-entry checks of selectedStudentSchema
selectionSchema_NoEntryChecks(data) ==
       (IF Len(data.selectedStudents) < 1
         THEN {FieldError("selectedStudents", 0, "At least one student must be selected with complete details.")}
         ELSE {})
  \cup (IF data.documentLink # "" /\ ~IsUrl(data.documentLink)
         THEN {FieldError("documentLink", 0, "Must be a valid URL")} ELSE {})

\* selectionSchema: the set of field errors of a draft (empty: it parses)
selectionSchema(data) ==
       (IF Len(data.selectedStudents) < 1
         THEN {FieldError("selectedStudents", 0, "At least one student must be selected with complete details.")}
         ELSE {})
  \cup UNION {selectedStudentSchema(data.selectedStudents[i], i) : i \in 1..Len(data.selectedStudents)}
  \cup (IF data.documentLink # Undefined /\ data.documentLink # "" /\ ~IsUrl(data.documentLink)
         THEN {FieldError("documentLink", 0, "Must be a valid URL")} ELSE {})

\* s.name && s.rollno && s.branch
IsComplete(st) == st.name # "" /\ st.rollno # "" /\ st.branch # ""

\* s.name || s.rollno || s.branch
IsTouched(st) == st.name # "" \/ st.rollno # "" \/ st.branch # ""

\* students.filter(s => s.name && s.rollno && s.branch).map(...)
RECURSIVE ValidStudents(_)
ValidStudents(students) ==
  IF students = << >> THEN << >>
  ELSE IF IsComplete(Head(students)) THEN <<Head(students)>> \o ValidStudents(Tail(students))
  ELSE ValidStudents(Tail(students))

NoToast == [title |-> "", description |-> ""]

Toast(t, desc) == [title |-> t, description |-> desc]

\* processStudentData: the filtered list, or a toast and a throw
processStudentData(students) ==
  LET validStudents == ValidStudents(students)
  IN IF /\ Len(validStudents) = 0
        /\ Len(students) > 0
        /\ \E i \in 1..Len(students) : IsTouched(students[i])
       THEN [threw |-> TRUE, value |-> << >>,
             toast |-> Toast("Validation Error", "Please ensure all selected students have a name, roll number, and branch.")]
       ELSE [threw |-> FALSE, value |-> validStudents, toast |-> NoToast]

\* the selectionData object built by handleAddSubmit and handleEditSubmit
SelectionPayload(processedStudents, data) ==
  [selectedStudents |-> processedStudents,
   nextSteps |-> IF data.nextSteps # << >> THEN SplitTrimFilter(data.nextSteps, "\n") ELSE << >>,
   documentLink |-> IF data.documentLink # "" THEN data.documentLink ELSE Undefined,
   additionalNotes |-> IF data.additionalNotes # << >> THEN SplitTrimFilter(data.additionalNotes, "\n") ELSE << >>]

NoPayload == [selectedStudents |-> << >>, nextSteps |-> << >>, documentLink |-> Undefined, additionalNotes |-> << >>]

\* handleAddSubmit / handleEditSubmit up to the mutate call: whether
\* mutate is called, with what, and what is toasted
SelectionSubmit(data, emptyDescription) ==
  LET processed == processStudentData(data.selectedStudents)
  IN IF processed.threw
       THEN [mutate |-> FALSE, payload |-> NoPayload, toast |-> processed.toast]
     ELSE IF /\ Len(processed.value) = 0
             /\ data.nextSteps = << >>
             /\ data.documentLink = ""
             /\ data.additionalNotes = << >>
       THEN [mutate |-> FALSE, payload |-> NoPayload, toast |-> Toast("Info", emptyDescription)]
     ELSE [mutate |-> TRUE, payload |-> SelectionPayload(processed.value, data), toast |-> NoToast]

handleAddSubmit(data) ==
  SelectionSubmit(data, "Cannot add an empty selection list. Please add students or other details.")

handleEditSubmit(data) ==
  SelectionSubmit(data, "Cannot save an empty selection list. Please add students or other details.")

\* xs.join(sep) for a one-character separator
RECURSIVE Join(_, _)
Join(xs, sep) ==
  IF xs = << >> THEN << >>
  ELSE IF Len(xs) = 1 THEN Head(xs)
  ELSE Head(xs) \o <<sep>> \o Join(Tail(xs), sep)

\* the defaultValues of the selection forms, and what form.reset restores
DefaultDraft ==
  [selectedStudents |-> <<BlankStudent>>, nextSteps |-> << >>, documentLink |-> "", additionalNotes |-> << >>]

\* what the backend stores under a record's _id: record 1 lists one student,
\* the other records list none and carry a document link
RecordContent(id) ==
  IF id = 1
    THEN [selectedStudents |-> <<StudentEntry("s1", "n", "r1", "b")>>,
          nextSteps |-> << <<"a">>, <<"b">> >>, documentLink |-> "", additionalNotes |-> << >>]
    ELSE [selectedStudents |-> << >>,
          nextSteps |-> << >>, documentLink |-> "https://doc", additionalNotes |-> << >>]

\* EditSelectionDialog's effect: form.reset from selectionRecordToEdit
RecordDraft(id) ==
  LET rec == RecordContent(id)
  IN [selectedStudents |-> IF Len(rec.selectedStudents) > 0 THEN rec.selectedStudents ELSE <<BlankStudent>>,
      nextSteps |-> Join(rec.nextSteps, "\n"),
      documentLink |-> rec.documentLink,
      additionalNotes |-> Join(rec.additionalNotes, "\n")]

\* what a handler of the selections card did: op names the handler, mutate
\* tells whether it called mutate, with which payload, and what it toasted
Step(op, ran, r) == [op |-> op, handled |-> ran, mutate |-> r.mutate, payload |-> r.payload, toast |-> r.toast]

\* a handler that neither called mutate nor toasted
NoResult == [mutate |-> FALSE, payload |-> NoPayload, toast |-> NoToast]

NoStep == Step("none", FALSE, NoResult)

\* a response body: its two fields the client looks at
Body(many, one) == [selections |-> many, selection |-> one]

\* no response received yet
NoBody == Body(Absent, Absent)


(***************************************************************************)
(* Forms: schemas, inputs and default values                               *)
(***************************************************************************)
\* the longest message updateFormSchemas.js accepts
MaxMessage == 500

Forms ==
  {"addPlacement", "editPlacement", "addUpdate", "editUpdate",
   "addInterview", "editInterview", "addSelection", "editSelection"}

\* z.string().min(1, msg) on field f
Required(d, f, msg) == IF d[f] = "" THEN {FieldError(f, 0, msg)} ELSE {}

\* the URL field declared z.string().url({ message: msg }).optional(), without
\* the .or(z.literal('')) alternative
OptionalUrl_NoEmptyLiteral(d, f, msg) ==
  IF d[f] # Undefined /\ ~IsUrl(d[f]) THEN {FieldError(f, 0, msg)} ELSE {}

\* z.string().url({ message: msg }).optional().or(z.literal('')) on field f
OptionalUrl(d, f, msg) ==
  IF d[f] # Undefined /\ d[f] # "" /\ ~IsUrl(d[f]) THEN {FieldError(f, 0, msg)} ELSE {}

\* companySchema, on the fields company.name and company.website
companySchema(d) ==
       Required(d, "companyName", "Company name is required")
  \cup OptionalUrl(d, "companyWebsite", "Invalid company website URL")

\* addPlacementSchema: the set of field errors of a placement draft
addPlacementSchema(d) ==
       Required(d, "title", "Placement title is required")
  \cup Required(d, "batches", "Batches are required (comma-separated). Example: 2025, 2026")
  \cup companySchema(d)
  \cup Required(d, "jobDesignation", "Job designation is required")
  \cup OptionalUrl(d, "jobDescriptionLink", "Invalid job description link URL")
  \cup Required(d, "eligibleBranches", "Eligible branches are required (comma-separated). Example: CSE, ECE, ME")
  \cup Required(d, "ctcDetails", "CTC details are required")
  \cup OptionalUrl(d, "applyLink", "Invalid apply link URL")
  \cup OptionalUrl(d, "registrationLink", "Invalid registration link URL")
  \cup (IF d.status \notin {"Upcoming", "Ongoing", "Completed"}
         THEN {FieldError("status", 0, "Please select a valid status.")} ELSE {})

\* z.enum(["Alert", "Info", "Reminder"]) and min(1).max(500) on the message,
\* a message being given by its length
UpdateSchema(d) ==
       (IF d.updateType \notin {"Alert", "Info", "Reminder"}
         THEN {FieldError("updateType", 0, "Update type is required.")} ELSE {})
  \cup (IF d.message < 1 THEN {FieldError("message", 0, "Message cannot be empty.")} ELSE {})
  \cup (IF d.message > MaxMessage THEN {FieldError("message", 0, "Message is too long.")} ELSE {})

addUpdateSchema(d) == UpdateSchema(d)

editUpdateSchema(d) == UpdateSchema(d)

\* interviewSchema
interviewSchema(d) ==
       Required(d, "interviewDate", "Interview date is required")
  \cup Required(d, "startTime", "Start time is required")
  \cup Required(d, "endTime", "End time is required")
  \cup Required(d, "mode", "Mode is required")

\* what can stand in a required text field, and in a URL field (the company
\* website may also hold a well-formed URL)
RequiredInputs == {"", "v"}

UrlInputs == {"", "not a url"}

WebsiteInputs == {"", "not a url", "https://site"}

\* the schema-checked fields of the placement forms and what each may hold;
\* the edit page draws no applyLink input and takes the status from the
\* loaded placement
PlacementInputs(fm) ==
  [title |-> RequiredInputs, batches |-> RequiredInputs, companyName |-> RequiredInputs,
   companyWebsite |-> WebsiteInputs, jobDesignation |-> RequiredInputs,
   jobDescriptionLink |-> UrlInputs, eligibleBranches |-> RequiredInputs,
   ctcDetails |-> RequiredInputs,
   applyLink |-> IF fm = "addPlacement" THEN UrlInputs ELSE {Undefined},
   registrationLink |-> UrlInputs,
   status |-> IF fm = "addPlacement" THEN {"Upcoming", "Ongoing", "Completed"}
              ELSE {"Upcoming", "Ongoing", "Completed", "Closed"}]

\* the fields of the update forms: the type select, the message textarea
UpdateInputs(fm) ==
  [updateType |-> IF fm = "addUpdate" THEN {"Alert", "Info", "Reminder"}
                  ELSE {"Alert", "Info", "Reminder", "Other"},
   message |-> {0, 1, MaxMessage, MaxMessage + 1}]

InterviewInputs ==
  [interviewDate |-> RequiredInputs, startTime |-> RequiredInputs,
   endTime |-> RequiredInputs, mode |-> {"", "Online", "Offline"}]

\* the selection forms with one student row
SelectionInputs ==
  [selectedStudents |-> {<<st>> : st \in StudentInputs}, nextSteps |-> TextInputs,
   documentLink |-> LinkInputs, additionalNotes |-> TextInputs]

\* per form: its fields and the values each may take
Inputs(fm) ==
  CASE fm \in {"addPlacement", "editPlacement"} -> PlacementInputs(fm)
    [] fm \in {"addUpdate", "editUpdate"} -> UpdateInputs(fm)
    [] fm \in {"addInterview", "editInterview"} -> InterviewInputs
    [] fm \in {"addSelection", "editSelection"} -> SelectionInputs

\* the loaded entity an edit form is filled from
LoadedEntity(fm) ==
  CASE fm = "editPlacement" ->
         [title |-> "v", batches |-> "v", companyName |-> "v", companyWebsite |-> "",
          jobDesignation |-> "v", jobDescriptionLink |-> "", eligibleBranches |-> "v",
          ctcDetails |-> "v", applyLink |-> Undefined, registrationLink |-> "",
          status |-> "Ongoing"]
    [] fm = "editUpdate" -> [updateType |-> "Alert", message |-> 1]
    [] fm = "editInterview" -> [interviewDate |-> "v", startTime |-> "v", endTime |-> "v", mode |-> "Offline"]
    [] fm = "editSelection" -> RecordDraft(1)

\* defaultValues of the create forms, the loaded entity for the edit forms
FormDefaults(fm) ==
  CASE fm = "addPlacement" ->
         [title |-> "", batches |-> "", companyName |-> "", companyWebsite |-> "",
          jobDesignation |-> "", jobDescriptionLink |-> "", eligibleBranches |-> "",
          ctcDetails |-> "", applyLink |-> "", registrationLink |-> "", status |-> "Upcoming"]
    [] fm = "addUpdate" -> [updateType |-> "Info", message |-> 0]
    [] fm = "addInterview" -> [interviewDate |-> "", startTime |-> "", endTime |-> "", mode |-> "Online"]
    [] fm = "addSelection" -> DefaultDraft
    [] OTHER -> LoadedEntity(fm)

\* what a submit did: the form, the draft it was submitted with, whether
\* the submit handler ran and whether it issued its request
FormStep(op, fm, before, ran, req) ==
  [op |-> op, form |-> fm, before |-> before, handled |-> ran, request |-> req]

NoDraft == [none |-> ""]

NoFormStep == FormStep("none", "none", NoDraft, FALSE, FALSE)

(***************************************************************************)
(* Mutations: what each success and error handler does                     *)
(***************************************************************************)
\* most mutation requests and most getPlacementById calls of the detail
\* page in flight at a time
MaxPending == 1

\* a toast: toast({ title, description, variant })
Notice(t, desc, v) == [title |-> t, description |-> desc, variant |-> v]

\* the query keys in use, all for the one placement id on screen:
\* ['placements'], ['placement', id], ['interviews', id], ['selections', id]
CacheKeys == {"placements", "placement", "interviews", "selections"}

\* an entry is "absent", "held" (fetched, and fetched again since it was
\* last invalidated) or "invalidated"; a queryFn is answered within the
\* step that starts it
NoCache == [k \in CacheKeys |-> "absent"]

Mutations ==
  {"addPlacement", "editPlacement", "deletePlacement",
   "addUpdate", "editUpdate", "deleteUpdate",
   "addInterview", "editInterview", "deleteInterview",
   "addSelection", "editSelection", "deleteSelection"}

\* the failed responses drawn: Unauthorized without a message in its body,
\* Forbidden with a message from the server
Failures == {[status |-> 401, message |-> "generic"], [status |-> 403, message |-> "server"]}

\* what a success handler and an error handler do: the query keys they
\* invalidate, whether they await fetchPlacementDetails(), where they
\* navigate, whether they close and reset their form, and their toasts
Handler(inv, refetch, nav, closes, okTitle, okText, errTitle, fallback) ==
  [invalidates |-> inv, refetch |-> refetch, navigate |-> nav, closes |-> closes,
   success |-> Notice(okTitle, okText, "default"),
   errorTitle |-> errTitle, fallback |-> fallback]

\* AddPlacementPage: const mutation = useMutation({ mutationFn: addPlacement, ... })
AddPlacementMutation ==
  Handler({"placements"}, FALSE, "list", FALSE,
          "Success", "Placement added successfully!",
          "Error", "Failed to add placement.")

\* EditPlacementPage: const mutation = useMutation({ ... updatePlacement(id, payload) ... })
EditPlacementMutation ==
  Handler({"placements", "placement"}, FALSE, "detail", FALSE,
          "Success", "Placement updated successfully!",
          "Error", "Failed to update placement.")

\* handleDeletePlacement without its navigate('/placements')
handleDeletePlacement_NoNavigate ==
  Handler({}, FALSE, "", FALSE,
          "Success", "Placement deleted successfully.",
          "Error", "Failed to delete placement.")

\* PlacementDetailPage.handleDeletePlacement
handleDeletePlacement ==
  Handler({}, FALSE, "list", FALSE,
          "Success", "Placement deleted successfully.",
          "Error", "Failed to delete placement.")

\* PlacementDetailPage.handleAddUpdateSubmit
handleAddUpdateSubmit ==
  Handler({}, TRUE, "", TRUE,
          "Success", "Placement update added successfully.",
          "Error", "Failed to add update.")

\* PlacementDetailPage.handleEditUpdateSubmit
handleEditUpdateSubmit ==
  Handler({}, TRUE, "", TRUE,
          "Success", "Update edited successfully.",
          "Error", "Failed to edit update.")

\* PlacementDetailPage.handleDeleteUpdate
handleDeleteUpdate ==
  Handler({}, TRUE, "", FALSE,
          "Success", "Update deleted successfully.",
          "Error", "Failed to delete update.")

\* PlacementInterviews: addMutation, updateMutation, deleteMutation
InterviewAddMutation ==
  Handler({"interviews"}, FALSE, "", TRUE,
          "Success", "Interview added successfully.",
          "Error", "Failed to add interview.")

InterviewUpdateMutation ==
  Handler({"interviews"}, FALSE, "", TRUE,
          "Success", "Interview updated successfully.",
          "Error", "Failed to update interview.")

InterviewDeleteMutation ==
  Handler({"interviews"}, FALSE, "", FALSE,
          "Success", "Interview deleted successfully.",
          "Error", "Failed to delete interview.")

\* PlacementSelections: addMutation, updateMutation, deleteMutation
SelectionAddMutation ==
  Handler({"selections"}, FALSE, "", TRUE,
          "Success", "Selection added successfully.",
          "Error Adding Selection", "Failed to add selection. Check console for details.")

SelectionUpdateMutation ==
  Handler({"selections"}, FALSE, "", TRUE,
          "Success", "Selection updated successfully.",
          "Error Updating Selection", "Failed to update selection. Check console for details.")

SelectionDeleteMutation ==
  Handler({"selections"}, FALSE, "", FALSE,
          "Success", "Selection deleted successfully.",
          "Error Deleting Selection", "Failed to delete selection. Check console for details.")

\* the handlers of a mutation
HandlerOf(mu) ==
  CASE mu = "addPlacement" -> AddPlacementMutation
    [] mu = "editPlacement" -> EditPlacementMutation
    [] mu = "deletePlacement" -> handleDeletePlacement
    [] mu = "addUpdate" -> handleAddUpdateSubmit
    [] mu = "editUpdate" -> handleEditUpdateSubmit
    [] mu = "deleteUpdate" -> handleDeleteUpdate
    [] mu = "addInterview" -> InterviewAddMutation
    [] mu = "editInterview" -> InterviewUpdateMutation
    [] mu = "deleteInterview" -> InterviewDeleteMutation
    [] mu = "addSelection" -> SelectionAddMutation
    [] mu = "editSelection" -> SelectionUpdateMutation
    [] mu = "deleteSelection" -> SelectionDeleteMutation

\* PlacementDetailPage state: no placement loaded, nothing in progress
NoDetail == [placement |-> "none", isLoading |-> FALSE, error |-> ""]

\* useState initial values of PlacementDetailPage: isLoading starts true
MountedDetail == [placement |-> "none", isLoading |-> TRUE, error |-> ""]

NoPending == EmptyBag

\* what a handler did: the notices it raised, the mutation requests it
\* issued, the keys it invalidated, whether it called
\* fetchPlacementDetails(), and whether it navigated
MutStep(op, mu, status, notices, requests, inv, refetched, navigated) ==
  [op |-> op, mu |-> mu, status |-> status, notices |-> notices, requests |-> requests,
   invalidated |-> inv, refetched |-> refetched, navigated |-> navigated]

NoMutStep == MutStep("none", "", 0, << >>, 0, {}, FALSE, FALSE)

\* a step of the user that issues nothing
UserStep(op) == MutStep(op, "", 0, << >>, 0, {}, FALSE, FALSE)

\* ---------------------------------------------------------------------------
\* The placement forms' comma-separated fields: from the text typed to the
\* list in the request, and from the stored list back to the text shown
\* ---------------------------------------------------------------------------

\* the longest text typed into the field under study
MaxChars == 4

\* the characters typed: two letters, the separator and a blank
CsvAlphabet == {"a", "b", ",", " "}

\* the texts an <Input> of the form can hold
CsvInputs == UNION {[1..n -> CsvAlphabet] : n \in 0..MaxChars}

\* the comma-separated fields of the add form; the edit form has no driveRounds
CsvFields == {"batches", "eligibleBranches", "driveRounds", "selectionProcess", "otherEligibilities"}

\* the fields a text is typed into here: the comma-separated ones and the title
TypedFields == CsvFields \cup {"title"}

\* a list put in the payload, and a payload key set to undefined
Defined(xs) == [defined |-> TRUE, list |-> xs]

UndefinedList == [defined |-> FALSE, list |-> << >>]

\* xs.join(sep) for a separator of any length
RECURSIVE JoinStr(_, _)
JoinStr(xs, sep) ==
  IF xs = << >> THEN << >>
  ELSE IF Len(xs) = 1 THEN Head(xs)
  ELSE Head(xs) \o sep \o JoinStr(Tail(xs), sep)

\* a join that puts nothing between the items
ListToField_NoSeparator(xs) == JoinStr(xs, << >>)

\* list.join(', '), how the edit form shows a stored list
ListToField(xs) == JoinStr(xs, <<",", " ">>)

\* data.batches.split(',').map(s => s.trim()).filter(s => s)
RequiredList(s) == Defined(SplitTrimFilter(s, ","))

\* data.driveRounds ? data.driveRounds.split(',').map(...).filter(...) : undefined
OptionalList(s) == IF s # << >> THEN Defined(SplitTrimFilter(s, ",")) ELSE UndefinedList

\* the form values with text f typed into field fd of an otherwise valid
\* form: the required fields filled, the optional ones left at their default ''
TypedDraft(fd, f) ==
  [[title |-> <<"a">>, batches |-> <<"a">>, eligibleBranches |-> <<"a">>,
    driveRounds |-> << >>, selectionProcess |-> << >>, otherEligibilities |-> << >>,
    jobDesignation |-> "v", ctcDetails |-> "v", companyName |-> "v",
    status |-> "Upcoming"] EXCEPT ![fd] = f]

\* what the resolver is given: z.string().min(1) looks at the length only
SchemaValues(data) ==
  [LoadedEntity("editPlacement") EXCEPT
     !.title = IF Len(data.title) >= 1 THEN "v" ELSE "",
     !.batches = IF Len(data.batches) >= 1 THEN "v" ELSE "",
     !.eligibleBranches = IF Len(data.eligibleBranches) >= 1 THEN "v" ELSE "",
     !.jobDesignation = data.jobDesignation,
     !.ctcDetails = data.ctcDetails,
     !.companyName = data.companyName,
     !.status = data.status]

\* zodResolver(addPlacementSchema): handleSubmit calls onSubmit only then
PassesValidation(data) == addPlacementSchema(SchemaValues(data)) = {}

\* AddPlacementPage.onSubmit: the payload built from the form values
AddPlacementPayload(data) ==
  [title |-> data.title,
   batches |-> RequiredList(data.batches),
   eligibleBranches |-> RequiredList(data.eligibleBranches),
   driveRounds |-> OptionalList(data.driveRounds),
   selectionProcess |-> OptionalList(data.selectionProcess),
   otherEligibilities |-> OptionalList(data.otherEligibilities),
   jobDesignation |-> data.jobDesignation, ctcDetails |-> data.ctcDetails,
   companyName |-> data.companyName, status |-> data.status]

\* EditPlacementPage.onSubmit: the same, without a driveRounds field
EditPlacementPayload(data) ==
  [title |-> data.title,
   batches |-> RequiredList(data.batches),
   eligibleBranches |-> RequiredList(data.eligibleBranches),
   driveRounds |-> UndefinedList,
   selectionProcess |-> OptionalList(data.selectionProcess),
   otherEligibilities |-> OptionalList(data.otherEligibilities),
   jobDesignation |-> data.jobDesignation, ctcDetails |-> data.ctcDetails,
   companyName |-> data.companyName, status |-> data.status]

\* a selectionProcess stored as one comma-separated string by an earlier
\* version: the text, and the list it stands for
LegacyString(text) == [defined |-> TRUE, list |-> SplitTrimFilter(text, ","), text |-> text]

\* Array.isArray(placement.selectionProcess)
IsArrayValue(v) == "text" \notin DOMAIN v

\* the separators a stored comma-separated string may use
LegacySeparators == {<<",">>, <<",", " ">>}

\* getPlacementById's placement for what was sent: the lists as arrays, or
\* the selection process as a legacy string with separator sep
StoredAs(payload, sep) ==
  IF sep = << >> THEN payload
  ELSE [payload EXCEPT !.selectionProcess = LegacyString(JoinStr(payload.selectionProcess.list, sep))]

\* EditPlacementPage's useEffect: form.reset with the loaded placement
EditPlacementReset(placement) ==
  [title |-> placement.title,
   batches |-> IF placement.batches.defined THEN ListToField(placement.batches.list) ELSE << >>,
   eligibleBranches |-> ListToField(placement.eligibleBranches.list),
   driveRounds |-> << >>,
   selectionProcess |->
     IF placement.driveRounds.defined THEN ListToField(placement.driveRounds.list)
     ELSE IF placement.selectionProcess.defined
     THEN (IF IsArrayValue(placement.selectionProcess)
           THEN ListToField(placement.selectionProcess.list)
           ELSE placement.selectionProcess.text)
     ELSE << >>,
   otherEligibilities |->
     IF placement.otherEligibilities.defined
     THEN ListToField(placement.otherEligibilities.list) ELSE << >>,
   jobDesignation |-> placement.jobDesignation, ctcDetails |-> placement.ctcDetails,
   companyName |-> placement.companyName, status |-> placement.status]

\* no payload built, no placement stored
NoPlacement == [title |-> << >>]

\* the form before anything is typed
NoCsv == [stage |-> "none", field |-> "", input |-> << >>, data |-> NoPlacement,
          payload |-> NoPlacement, stored |-> NoPlacement]


\* the pages before they are mounted
NoDp == [id |-> ""]

NoEp == [id |-> ""]

NoIv == [stage |-> "none"]

NoSc == [open |-> "none"]

VARIABLES
  storage,      \* localStorage 'authToken'
  token,        \* AuthProvider state: token
  user,         \* AuthProvider state: user
  isLoading,    \* AuthProvider state: isLoading
  meInFlight,   \* getMe calls awaited by loadUser: token of the closure -> count
  authInFlight, \* loginUser / registerUser calls awaited: kind -> count
  profInFlight, \* updateMe awaited by ProfilePage.onSubmit: "idle", or the stored token it was sent with
  lastEvent,    \* the handler stretch that ran last, with what it raised and toasted
  epoch,        \* "boot", or the last of login/signup success ("loggedIn") and logout ("loggedOut")
  page,         \* the route shown: "other", "detail", "add" or "edit"
  dialog,       \* the modal dialog open on the detail page, or "none"
  offered,      \* user?.role at the moment the open dialog or form page was offered
  lastReq,      \* the mutation request issued last
  selStatus,    \* the selections query: "loading", "success" or "error"
  selBody,      \* the body the backend has ready for the first fetch
  selections,   \* the query data: what getSelectionsByPlacementId returned last
  showAddDialog,     \* PlacementSelections state
  editingSelection,  \* PlacementSelections state: 0 for null, else the record's _id
  selDraft,     \* the values held by the open selection form
  selErrors,    \* formState.errors of the open selection form
  selPending,   \* the selection mutations whose isPending is true
  currentDeletingId, \* PlacementSelections state: 0 for null, else a record's _id
  selStep,      \* what the last handler of the selections card did
  formOpen,     \* the form on screen, "none" when there is none
  formDraft,    \* the values it holds
  formErrors,   \* its formState.errors
  formPhase,    \* "idle", or "submitting" while its request is in flight
  formStep,     \* what the last submit did
  cache,        \* the query cache: per query key, the state of its entry
  detail,       \* PlacementDetailPage state: placement, isLoading, error
  detailFetch,  \* getPlacementById calls awaited by fetchPlacementDetails
  mutPending,   \* mutation requests in flight: a bag of <<mutation, whether the issuing component is still mounted>>
  mutStep,      \* what the last handler of a mutation or fetch did
  csv,          \* a placement form with one field under study: the draft, the payload sent, the placement stored
  dp,           \* PlacementDetailPage with its route id, its fetches and its update handlers
  ep,           \* EditPlacementPage: the query result, the form values, the requests in flight
  iv,           \* an interview form with its additionalNotes text, the payload sent, the interview stored
  sc            \* the submit controls of the eight forms: pending flags and requests in flight

authVars == <<storage, token, user, isLoading, meInFlight, authInFlight, profInFlight, lastEvent, epoch>>

pageVars == <<page, dialog, offered, lastReq>>

selVars == <<selStatus, selBody, selections, showAddDialog, editingSelection,
             selDraft, selErrors, selPending, currentDeletingId, selStep>>

formVars == <<formOpen, formDraft, formErrors, formPhase, formStep>>

mutVars == <<cache, detail, detailFetch, mutPending, mutStep>>

csvVars == <<csv>>

detailVars == <<dp>>

editVars == <<ep>>

notesVars == <<iv>>

controlVars == <<sc>>

vars == <<authVars, pageVars, selVars, formVars, mutVars, csvVars, detailVars, editVars, notesVars, controlVars>>

Event(op, t, r, ts) == [op |-> op, tok |-> t, raised |-> r, toast |-> ts]

AuthKinds == {"login", "signup"}

Outstanding == meInFlight["tokA"] + meInFlight["tokS"] + authInFlight["login"] + authInFlight["signup"]

\* useEffect(..., [token]) up to the await: loadUser runs when token changed
\* to newTok; with a token it awaits getMe, without one it only clears isLoading
EffectMe(oldTok, newTok, inflight) ==
  IF newTok # oldTok /\ newTok # NoToken
    THEN [inflight EXCEPT ![newTok] = @ + 1]
    ELSE inflight

EffectLoading(oldTok, newTok, loading) ==
  IF newTok # oldTok /\ newTok = NoToken THEN FALSE ELSE loading

\* no mutation request issued yet
NoReq == [op |-> "none", entity |-> "", offered |-> ""]

\* AuthProvider's first render and the first run of the effect; the router
\* shows a public page and no dialog is open
Init ==
  /\ storage \in Tokens \cup {NoToken}
  /\ token = storage
  /\ user = NoUser
  /\ meInFlight = EffectMe(NoToken, storage, [t \in Tokens |-> 0])
  /\ isLoading = (storage # NoToken)
  /\ authInFlight = [k \in AuthKinds |-> 0]
  /\ profInFlight = "idle"
  /\ lastEvent = Event("mount", storage, FALSE, "")
  /\ epoch = "boot"
  /\ page = "other"
  /\ dialog = "none"
  /\ offered = ""
  /\ lastReq = NoReq
  /\ selStatus = "loading"
  /\ selBody = NoBody
  /\ selections = << >>
  /\ showAddDialog = FALSE
  /\ editingSelection = 0
  /\ selDraft = DefaultDraft
  /\ selErrors = {}
  /\ selPending = {}
  /\ currentDeletingId = 0
  /\ selStep = NoStep
  /\ formOpen = "none"
  /\ formDraft = NoDraft
  /\ formErrors = {}
  /\ formPhase = "idle"
  /\ formStep = NoFormStep
  /\ cache = NoCache
  /\ detail = NoDetail
  /\ detailFetch = 0
  /\ mutPending = NoPending
  /\ mutStep = NoMutStep
  /\ csv = NoCsv
  /\ dp = NoDp
  /\ ep = NoEp
  /\ iv = NoIv
  /\ sc = NoSc

\* loadUser after getMe resolved: setUser(userData); setIsLoading(false)
LoadUserOk(t) ==
  /\ meInFlight[t] > 0
  /\ user' = MeBody(UserOf(t))
  /\ isLoading' = FALSE
  /\ meInFlight' = [meInFlight EXCEPT ![t] = @ - 1]
  /\ lastEvent' = Event("loadUserOk", t, FALSE, "")
  /\ UNCHANGED <<storage, token, authInFlight, profInFlight, epoch>>
  /\ UNCHANGED <<selVars, formVars, mutVars, csvVars, detailVars, editVars, notesVars, controlVars>>

\* LoadUserFail with the localStorage.removeItem call left out
LoadUserFail_KeepsStoredToken(t) ==
  /\ meInFlight[t] > 0
  /\ storage' = storage
  /\ token' = NoToken
  /\ user' = NoUser
  /\ isLoading' = FALSE
  /\ meInFlight' = EffectMe(token, NoToken, [meInFlight EXCEPT ![t] = @ - 1])
  /\ lastEvent' = Event("loadUserFail", t, FALSE, "")
  /\ UNCHANGED <<authInFlight, profInFlight, epoch>>
  /\ UNCHANGED <<selVars, formVars, mutVars, csvVars, detailVars, editVars, notesVars, controlVars>>

\* loadUser after getMe rejected: the catch block, then setIsLoading(false)
LoadUserFail(t) ==
  /\ meInFlight[t] > 0
  /\ storage' = NoToken
  /\ token' = NoToken
  /\ user' = NoUser
  /\ isLoading' = FALSE
  /\ meInFlight' = EffectMe(token, NoToken, [meInFlight EXCEPT ![t] = @ - 1])
  /\ lastEvent' = Event("loadUserFail", t, FALSE, "")
  /\ UNCHANGED <<authInFlight, profInFlight, epoch>>
  /\ UNCHANGED <<selVars, formVars, mutVars, csvVars, detailVars, editVars, notesVars, controlVars>>

\* login / signup up to the await: setIsLoading(true), the request leaves
AuthStart(k) ==
  /\ Outstanding < MaxInFlight
  /\ isLoading' = TRUE
  /\ authInFlight' = [authInFlight EXCEPT ![k] = @ + 1]
  /\ lastEvent' = Event(k \o "Start", NoToken, FALSE, "")
  /\ UNCHANGED <<storage, token, user, meInFlight, profInFlight, epoch>>
  /\ UNCHANGED <<selVars, formVars, mutVars, csvVars, detailVars, editVars, notesVars, controlVars>>

\* login / signup after the request resolved with {user, token}
AuthOk(k, t) ==
  /\ authInFlight[k] > 0
  /\ authInFlight' = [authInFlight EXCEPT ![k] = @ - 1]
  /\ storage' = t
  /\ token' = t
  /\ user' = UserOf(t)
  /\ isLoading' = FALSE
  /\ meInFlight' = EffectMe(token, t, meInFlight)
  /\ lastEvent' = Event(k \o "Ok", t, FALSE, "success")
  /\ epoch' = "loggedIn"
  /\ UNCHANGED <<profInFlight>>
  /\ UNCHANGED <<selVars, formVars, mutVars, csvVars, detailVars, editVars, notesVars, controlVars>>

\* login / signup whose catch also drops the session
AuthFail_ClearsSession(k, msg) ==
  /\ authInFlight[k] > 0
  /\ authInFlight' = [authInFlight EXCEPT ![k] = @ - 1]
  /\ isLoading' = FALSE
  /\ storage' = NoToken
  /\ token' = NoToken
  /\ user' = NoUser
  /\ lastEvent' = Event(k \o "Fail", NoToken, TRUE, msg)
  /\ UNCHANGED <<meInFlight, profInFlight, epoch>>
  /\ UNCHANGED <<selVars, formVars, mutVars, csvVars, detailVars, editVars, notesVars, controlVars>>

\* login / signup after the request rejected: toast, rethrow, finally
AuthFail(k, msg) ==
  /\ authInFlight[k] > 0
  /\ authInFlight' = [authInFlight EXCEPT ![k] = @ - 1]
  /\ isLoading' = FALSE
  /\ lastEvent' = Event(k \o "Fail", NoToken, TRUE, msg)
  /\ UNCHANGED <<storage, token, user, meInFlight, profInFlight, epoch>>
  /\ UNCHANGED <<selVars, formVars, mutVars, csvVars, detailVars, editVars, notesVars, controlVars>>

\* logout that leaves the stored token in place
Logout_KeepsStoredToken ==
  /\ IsAuthenticated(user)
  /\ storage' = storage
  /\ token' = NoToken
  /\ user' = NoUser
  /\ meInFlight' = EffectMe(token, NoToken, meInFlight)
  /\ isLoading' = EffectLoading(token, NoToken, isLoading)
  /\ lastEvent' = Event("logout", NoToken, FALSE, "Logged Out")
  /\ epoch' = "loggedOut"
  /\ UNCHANGED <<authInFlight, profInFlight>>
  /\ UNCHANGED <<selVars, formVars, mutVars, csvVars, detailVars, editVars, notesVars, controlVars>>

\* logout (the Navbar offers it while isAuthenticated)
Logout ==
  /\ IsAuthenticated(user)
  /\ storage' = NoToken
  /\ token' = NoToken
  /\ user' = NoUser
  /\ meInFlight' = EffectMe(token, NoToken, meInFlight)
  /\ isLoading' = EffectLoading(token, NoToken, isLoading)
  /\ lastEvent' = Event("logout", NoToken, FALSE, "Logged Out")
  /\ epoch' = "loggedOut"
  /\ UNCHANGED <<authInFlight, profInFlight>>
  /\ UNCHANGED <<selVars, formVars, mutVars, csvVars, detailVars, editVars, notesVars, controlVars>>

\* ProfilePage.onSubmit up to the await (the page renders its form only
\* when auth is not loading and a user is held)
ProfileStart ==
  /\ IsAuthenticated(user)
  /\ ~isLoading
  /\ profInFlight = "idle"
  /\ profInFlight' = storage
  /\ lastEvent' = Event("profileStart", storage, FALSE, "")
  /\ UNCHANGED <<storage, token, user, isLoading, meInFlight, authInFlight, epoch>>
  /\ UNCHANGED <<selVars, formVars, mutVars, csvVars, detailVars, editVars, notesVars, controlVars>>

\* ProfilePage.onSubmit after updateMe resolved: setUser(response.user)
\* (the backend answers only a request that carried a token)
ProfileOk ==
  /\ profInFlight \in Tokens
  /\ user' = UserOf(profInFlight)
  /\ profInFlight' = "idle"
  /\ lastEvent' = Event("profileOk", profInFlight, FALSE, "Profile Updated")
  /\ UNCHANGED <<storage, token, isLoading, meInFlight, authInFlight, epoch>>
  /\ UNCHANGED <<selVars, formVars, mutVars, csvVars, detailVars, editVars, notesVars, controlVars>>

\* ProfilePage.onSubmit after updateMe rejected: toast only
ProfileFail ==
  /\ profInFlight # "idle"
  /\ profInFlight' = "idle"
  /\ lastEvent' = Event("profileFail", profInFlight, FALSE, "Update Error")
  /\ UNCHANGED <<storage, token, user, isLoading, meInFlight, authInFlight, epoch>>
  /\ UNCHANGED <<selVars, formVars, mutVars, csvVars, detailVars, editVars, notesVars, controlVars>>

\* the messages a failure may toast: the server's, or the generic fallback
FailMessages == {"server", "generic"}

NextAuth ==
  \/ \E t \in Tokens : LoadUserOk(t) /\ UNCHANGED pageVars
  \/ \E t \in Tokens : LoadUserFail(t) /\ UNCHANGED pageVars
  \/ \E k \in AuthKinds : AuthStart(k) /\ UNCHANGED pageVars
  \/ \E k \in AuthKinds, t \in Tokens : AuthOk(k, t) /\ UNCHANGED pageVars
  \/ \E k \in AuthKinds, m \in FailMessages : AuthFail(k, m) /\ UNCHANGED pageVars
  \/ Logout /\ UNCHANGED pageVars
  \/ ProfileStart /\ UNCHANGED pageVars
  \/ ProfileOk /\ UNCHANGED pageVars
  \/ ProfileFail /\ UNCHANGED pageVars



(***************************************************************************)
(* Pages and their mutation controls                                       *)
(***************************************************************************)

\* PlacementHeader shows Edit Placement, Delete and Add Update to anyone
PlacementHeader_NoRoleCheck(u) == IsAuthenticated(u)

\* PlacementHeader: {user?.role === 'admin' && (...)}
PlacementHeader(u) == RoleOf(u) = "admin"

\* PlacementInterviews: the Add Interview trigger and each card's edit and
\* delete buttons
PlacementInterviews(u) == RoleOf(u) = "admin"

\* PlacementSelections: the Add Selection List button
PlacementSelections(u) == RoleOf(u) = "admin"

\* UpdateCardItem: the edit and delete buttons of one update
UpdateCardItem(u) == RoleOf(u) = "admin"

\* SelectionListItem: the edit and delete buttons of one selection record
SelectionListItem(u) == RoleOf(u) = "admin"

\* the guard of the /admin/placements/... routes
AdminRoute(u) == RoleOf(u) = "admin"

\* ProtectedRoute around /placements and /placements/:id
ProtectedRoute(u) == IsAuthenticated(u)

\* the controls that start a mutation, as rendered for user u on page pg
MutationControls(u, pg) ==
  IF pg = "detail" THEN
       (IF PlacementHeader(u) THEN {"editPlacement", "deletePlacement", "addUpdate"} ELSE {})
  \cup (IF PlacementInterviews(u) THEN {"addInterview", "editInterview", "deleteInterview"} ELSE {})
  \cup (IF PlacementSelections(u) THEN {"addSelection"} ELSE {})
  \cup (IF UpdateCardItem(u) THEN {"editUpdate", "deleteUpdate"} ELSE {})
  \cup (IF SelectionListItem(u) THEN {"editSelection", "deleteSelection"} ELSE {})
  ELSE IF pg \in {"add", "edit"} THEN {"submitPlacement"}
  ELSE {}

\* the entity a control acts on
EntityOf(c) ==
  CASE c \in {"editPlacement", "deletePlacement", "submitPlacement"} -> "placement"
    [] c \in {"addUpdate", "editUpdate", "deleteUpdate"} -> "update"
    [] c \in {"addInterview", "editInterview", "deleteInterview"} -> "interview"
    [] OTHER -> "selection"

\* the request a dialog sends when it is submitted or confirmed
OpOf(c) ==
  CASE c \in {"addUpdate", "addInterview", "addSelection"} -> "create"
    [] c \in {"editUpdate", "editInterview", "editSelection"} -> "edit"
    [] OTHER -> "delete"

SpecAuth == Init /\ [][NextAuth]_vars

\* the route guards re-render with the provider: a page whose guard rejects
\* the new user is replaced by a redirect
RouteAfter ==
  /\ page' = IF page \in {"add", "edit"} /\ ~AdminRoute(user') THEN "other"
             ELSE IF page = "detail" /\ ~ProtectedRoute(user') THEN "other"
             ELSE page
  /\ dialog' = IF page' = page THEN dialog ELSE "none"
  /\ offered' = IF page' = page THEN offered ELSE ""
  /\ UNCHANGED lastReq

\* Navbar.handleLogout: logout(), then navigate('/login')
NavbarLogout ==
  /\ dialog = "none"
  /\ Logout
  /\ page' = "other"
  /\ offered' = ""
  /\ UNCHANGED <<dialog, lastReq>>

\* following a link or typing a URL
Navigate(pg) ==
  /\ dialog = "none"
  /\ pg # page
  /\ pg = "detail" => ProtectedRoute(user)
  /\ pg \in {"add", "edit"} => AdminRoute(user)
  /\ page' = pg
  /\ offered' = IF pg \in {"add", "edit"} THEN RoleOf(user) ELSE ""
  /\ UNCHANGED <<authVars, dialog, lastReq>>
  /\ UNCHANGED <<selVars, formVars, mutVars, csvVars, detailVars, editVars, notesVars, controlVars>>

\* pressing a rendered control of the detail page: Edit Placement navigates
\* (handleNavigateToEditPlacement), every other control opens its dialog
UseControl(c) ==
  /\ page = "detail"
  /\ dialog = "none"
  /\ c \in MutationControls(user, page)
  /\ IF c = "editPlacement"
       THEN page' = "edit" /\ dialog' = "none"
       ELSE page' = page /\ dialog' = c
  /\ offered' = RoleOf(user)
  /\ UNCHANGED <<authVars, lastReq>>
  /\ UNCHANGED <<selVars, formVars, mutVars, csvVars, detailVars, editVars, notesVars, controlVars>>

\* submitting the form of an open dialog, or pressing Delete in an open
\* confirmation: the request leaves
DialogSubmit ==
  /\ dialog # "none"
  /\ lastReq' = [op |-> OpOf(dialog), entity |-> EntityOf(dialog), offered |-> offered]
  /\ dialog' = IF OpOf(dialog) = "delete" THEN "none" ELSE dialog
  /\ UNCHANGED <<authVars, page, offered>>
  /\ UNCHANGED <<selVars, formVars, mutVars, csvVars, detailVars, editVars, notesVars, controlVars>>

\* Cancel, or the dialog closing after its mutation succeeded
DialogClose ==
  /\ dialog # "none"
  /\ dialog' = "none"
  /\ offered' = ""
  /\ UNCHANGED <<authVars, page, lastReq>>
  /\ UNCHANGED <<selVars, formVars, mutVars, csvVars, detailVars, editVars, notesVars, controlVars>>

\* AddPlacementPage / EditPlacementPage: onSubmit -> mutation.mutate(payload)
PageSubmit ==
  /\ page \in {"add", "edit"}
  /\ "submitPlacement" \in MutationControls(user, page)
  /\ lastReq' = [op |-> IF page = "add" THEN "create" ELSE "edit", entity |-> "placement", offered |-> offered]
  /\ UNCHANGED <<authVars, page, dialog, offered>>
  /\ UNCHANGED <<selVars, formVars, mutVars, csvVars, detailVars, editVars, notesVars, controlVars>>

Pages == {"other", "detail", "add", "edit"}

DetailControls == MutationControls(UserObj("asha", "admin"), "detail")

\* the session events of SpecPage: one login form, the restore, the logout
NextPage ==
  \/ (\E t \in Tokens : LoadUserOk(t)) /\ RouteAfter
  \/ (\E t \in Tokens : LoadUserFail(t)) /\ RouteAfter
  \/ AuthStart("login") /\ page = "other" /\ UNCHANGED pageVars
  \/ (\E t \in Tokens : AuthOk("login", t)) /\ RouteAfter
  \/ (\E m \in FailMessages : AuthFail("login", m)) /\ UNCHANGED pageVars
  \/ NavbarLogout
  \/ \E pg \in Pages : Navigate(pg)
  \/ \E c \in DetailControls : UseControl(c)
  \/ DialogSubmit
  \/ DialogClose
  \/ PageSubmit

SpecPage == Init /\ [][NextPage]_vars

C1_RestoreFailureClearsSession ==
  lastEvent.op = "loadUserFail" =>
    /\ storage = NoToken
    /\ token = NoToken
    /\ user = NoUser
    /\ isLoading = FALSE
    /\ lastEvent.raised = FALSE

\* C1 witness: the provider started with a stored token and that token's
\* getMe failed before any login or logout.
C1_Witness ==
  /\ lastEvent.op = "loadUserFail"
  /\ lastEvent.tok \in Tokens
  /\ epoch = "boot"
  /\ storage = NoToken

\* C2 (as claimed): the session becomes Authenticated only by a successful
\* login, signup or token restore, and becomes Unauthenticated only by
\* logout or by a failed restore.
C2_OnlyListedTransitions ==
  [][ /\ (~IsAuthenticated(user) /\ IsAuthenticated(user'))
           => lastEvent'.op \in {"loginOk", "signupOk", "loadUserOk"}
      /\ (IsAuthenticated(user) /\ ~IsAuthenticated(user'))
           => lastEvent'.op \in {"logout", "loadUserFail"} ]_vars

\* C3 (as claimed): from logout until the next successful login or signup
\* the stored token is absent, the in-memory token is null and the user is
\* null, also after each who-am-i request that was in flight at logout has
\* completed.
C3_LoggedOutStaysCleared ==
  (epoch = "loggedOut" /\ lastEvent.op \in {"logout", "loadUserOk", "loadUserFail"}) =>
    /\ storage = NoToken
    /\ token = NoToken
    /\ user = NoUser

\* C4 (as claimed): right after a restore whose getMe answered {user: U},
\* the current user is U and its role is U.role.
C4_RestoredUserIsU ==
  lastEvent.op = "loadUserOk" =>
    /\ user = UserOf(lastEvent.tok)
    /\ RoleOf(user) = UserOf(lastEvent.tok).role


(***************************************************************************)
(* The Final Selections card (PlacementSelections.jsx) and its two dialogs *)
(***************************************************************************)
\* the bodies the backend sends for GET /selections/:placementId: a
\* selections array of distinct records, a single selection, or neither
ServerBodies ==
       {Body(a, Absent) : a \in {x \in JsonArrays : \A i, j \in 1..Len(x.v) : i < j => x.v[i] < x.v[j]}}
  \cup {Body(Absent, Obj(id)) : id \in RecordIds}
  \cup {NoBody}

\* the _ids of the records in the query data
ShownIds == {selections[i].v[1] : i \in 1..Len(selections)}

\* the Add Selection List button drawn as in the one-record revision:
\* disabled as soon as a record exists
AddSelectionButton_OneRecord(u, pending, sels) ==
  [shown |-> RoleOf(u) = "admin", disabled |-> Len(sels) > 0]

\* the Add Selection List button
AddSelectionButton(u, pending, sels) ==
  [shown |-> RoleOf(u) = "admin", disabled |-> "add" \in pending \/ "update" \in pending]

\* selections.map(...): one SelectionListItem per record of the query data,
\* each with the edit and delete controls SelectionListItem draws for u
SelectionList(u, sels) ==
  [i \in 1..Len(sels) |-> [record |-> sels[i], edit |-> SelectionListItem(u), delete |-> SelectionListItem(u)]]

\* the resolver of the form inside AddSelectionDialog
AddSelectionDialog(data) == selectionSchema(data)

\* the resolver of the form inside EditSelectionDialog
EditSelectionDialog(data) == selectionSchema(data)

\* the card body is rendered: neither the loading nor the error view
CardShown == selStatus = "success"

DialogOpen == showAddDialog \/ editingSelection # 0

\* re-validation after a change: an error shown by the last submit
\* disappears once the schema no longer reports it
Revalidate(errs, data) == errs \cap selectionSchema(data)

\* the query function resolved with getSelectionsByPlacementId(body); the
\* dialogs, unmounted by the loading or error view, mount again
FetchOk(body) ==
  /\ selections' = getSelectionsByPlacementId(body)
  /\ selStatus' = "success"
  /\ selDraft' = IF ~CardShown /\ editingSelection # 0 THEN RecordDraft(editingSelection) ELSE selDraft
  /\ selStep' = NoStep
  /\ UNCHANGED <<selBody, showAddDialog, editingSelection, selErrors, selPending, currentDeletingId>>
  /\ UNCHANGED <<csvVars, detailVars, editVars, notesVars, controlVars, authVars, pageVars, formVars, mutVars>>

\* the query function rejected: the error view replaces the card and its dialogs
FetchFail ==
  /\ selStatus' = "error"
  /\ selDraft' = DefaultDraft
  /\ selErrors' = {}
  /\ selStep' = NoStep
  /\ UNCHANGED <<selBody, selections, showAddDialog, editingSelection, selPending, currentDeletingId>>
  /\ UNCHANGED <<csvVars, detailVars, editVars, notesVars, controlVars, authVars, pageVars, formVars, mutVars>>

\* the Add Selection List button: setShowAddDialog(true)
OpenAdd ==
  /\ CardShown /\ ~DialogOpen
  /\ AddSelectionButton(user, selPending, selections).shown
  /\ ~AddSelectionButton(user, selPending, selections).disabled
  /\ showAddDialog' = TRUE
  /\ selDraft' = DefaultDraft
  /\ selErrors' = {}
  /\ selStep' = NoStep
  /\ UNCHANGED <<selStatus, selBody, selections, editingSelection, selPending, currentDeletingId>>
  /\ UNCHANGED <<csvVars, detailVars, editVars, notesVars, controlVars, authVars, pageVars, formVars, mutVars>>

\* handleEdit from the i-th list item: setEditingSelection(selection)
handleEdit(i) ==
  /\ CardShown /\ ~DialogOpen
  /\ i \in 1..Len(selections)
  /\ SelectionList(user, selections)[i].edit
  /\ editingSelection' = selections[i].v[1]
  /\ selDraft' = RecordDraft(selections[i].v[1])
  /\ selErrors' = {}
  /\ selStep' = NoStep
  /\ UNCHANGED <<selStatus, selBody, selections, showAddDialog, selPending, currentDeletingId>>
  /\ UNCHANGED <<csvVars, detailVars, editVars, notesVars, controlVars, authVars, pageVars, formVars, mutVars>>

\* the user changes the open form
ChangeDraft(d) ==
  /\ CardShown /\ DialogOpen
  /\ d # selDraft
  /\ selDraft' = d
  /\ selErrors' = Revalidate(selErrors, d)
  /\ selStep' = NoStep
  /\ UNCHANGED <<selStatus, selBody, selections, showAddDialog, editingSelection, selPending, currentDeletingId>>
  /\ UNCHANGED <<csvVars, detailVars, editVars, notesVars, controlVars, authVars, pageVars, formVars, mutVars>>

\* typing into the inputs of student row i (a hidden _id stays)
SetStudent(i, st) ==
  /\ i \in 1..Len(selDraft.selectedStudents)
  /\ ChangeDraft([selDraft EXCEPT !.selectedStudents[i] = [st EXCEPT !.sid = selDraft.selectedStudents[i].sid]])

\* Add Student: append({ name: '', rollno: '', branch: '' })
AppendStudent ==
  /\ Len(selDraft.selectedStudents) < MaxStudents
  /\ ChangeDraft([selDraft EXCEPT !.selectedStudents = Append(@, BlankStudent)])

\* the remove button of row i, disabled while there is one row
RemoveStudent(i) ==
  /\ i \in 1..Len(selDraft.selectedStudents)
  /\ Len(selDraft.selectedStudents) # 1
  /\ ChangeDraft([selDraft EXCEPT !.selectedStudents =
                    SubSeq(@, 1, i - 1) \o SubSeq(@, i + 1, Len(@))])

SetNextSteps(t) == ChangeDraft([selDraft EXCEPT !.nextSteps = t])

SetDocumentLink(l) == ChangeDraft([selDraft EXCEPT !.documentLink = l])

SetAdditionalNotes(t) == ChangeDraft([selDraft EXCEPT !.additionalNotes = t])

\* form.handleSubmit(onSubmit): the resolver's errors are shown and onSubmit
\* is not called, or the errors are cleared and onSubmit runs on the data
handleSubmit(op, errs, result, kind) ==
  IF errs # {}
    THEN /\ selErrors' = errs
         /\ selStep' = Step(op, FALSE, NoResult)
         /\ selPending' = selPending
    ELSE /\ selErrors' = {}
         /\ selStep' = Step(op, TRUE, result)
         /\ selPending' = IF result.mutate THEN selPending \cup {kind} ELSE selPending

\* the submit button of AddSelectionDialog (disabled while isSubmitting)
SubmitAdd ==
  /\ CardShown /\ showAddDialog
  /\ "add" \notin selPending
  /\ handleSubmit("submitAdd", AddSelectionDialog(selDraft), handleAddSubmit(selDraft), "add")
  /\ UNCHANGED <<selStatus, selBody, selections, showAddDialog, editingSelection, selDraft, currentDeletingId>>
  /\ UNCHANGED <<csvVars, detailVars, editVars, notesVars, controlVars, authVars, pageVars, formVars, mutVars>>

\* the submit button of EditSelectionDialog (disabled while isSubmitting)
SubmitEdit ==
  /\ CardShown /\ editingSelection # 0
  /\ "update" \notin selPending
  /\ handleSubmit("submitEdit", EditSelectionDialog(selDraft), handleEditSubmit(selDraft), "update")
  /\ UNCHANGED <<selStatus, selBody, selections, showAddDialog, editingSelection, selDraft, currentDeletingId>>
  /\ UNCHANGED <<csvVars, detailVars, editVars, notesVars, controlVars, authVars, pageVars, formVars, mutVars>>

\* Cancel or the close button: the form is reset, the dialog state cleared
CloseDialog ==
  /\ CardShown /\ DialogOpen
  /\ showAddDialog' = FALSE
  /\ editingSelection' = 0
  /\ selDraft' = DefaultDraft
  /\ selErrors' = {}
  /\ selStep' = NoStep
  /\ UNCHANGED <<selStatus, selBody, selections, selPending, currentDeletingId>>
  /\ UNCHANGED <<csvVars, detailVars, editVars, notesVars, controlVars, authVars, pageVars, formVars, mutVars>>

\* the outcome of a mutation as a step: its toast
Outcome(op, title, desc) == Step(op, FALSE, [NoResult EXCEPT !.toast = Toast(title, desc)])

\* err.response?.data?.message || fallback
ErrorDescription(m, fallback) == IF m = "server" THEN "message from the server" ELSE fallback

\* addMutation.onSuccess: invalidateQueries, toast, setShowAddDialog(false)
AddOk ==
  /\ "add" \in selPending
  /\ selPending' = selPending \ {"add"}
  /\ showAddDialog' = FALSE
  /\ selDraft' = IF showAddDialog THEN DefaultDraft ELSE selDraft
  /\ selErrors' = IF showAddDialog THEN {} ELSE selErrors
  /\ selStep' = Outcome("addOk", "Success", "Selection added successfully.")
  /\ UNCHANGED <<selStatus, selBody, selections, editingSelection, currentDeletingId>>
  /\ UNCHANGED <<csvVars, detailVars, editVars, notesVars, controlVars, authVars, pageVars, formVars, mutVars>>

\* addMutation.onError: the toast only
AddFail(m) ==
  /\ "add" \in selPending
  /\ selPending' = selPending \ {"add"}
  /\ selStep' = Outcome("addFail", "Error Adding Selection",
                        ErrorDescription(m, "Failed to add selection. Check console for details."))
  /\ UNCHANGED <<selStatus, selBody, selections, showAddDialog, editingSelection, selDraft, selErrors, currentDeletingId>>
  /\ UNCHANGED <<csvVars, detailVars, editVars, notesVars, controlVars, authVars, pageVars, formVars, mutVars>>

\* updateMutation.onSuccess: invalidateQueries, toast, setEditingSelection(null)
UpdateOk ==
  /\ "update" \in selPending
  /\ selPending' = selPending \ {"update"}
  /\ editingSelection' = 0
  /\ selDraft' = IF editingSelection # 0 THEN DefaultDraft ELSE selDraft
  /\ selErrors' = IF editingSelection # 0 THEN {} ELSE selErrors
  /\ selStep' = Outcome("updateOk", "Success", "Selection updated successfully.")
  /\ UNCHANGED <<selStatus, selBody, selections, showAddDialog, currentDeletingId>>
  /\ UNCHANGED <<csvVars, detailVars, editVars, notesVars, controlVars, authVars, pageVars, formVars, mutVars>>

\* updateMutation.onError: the toast only
UpdateFail(m) ==
  /\ "update" \in selPending
  /\ selPending' = selPending \ {"update"}
  /\ selStep' = Outcome("updateFail", "Error Updating Selection",
                        ErrorDescription(m, "Failed to update selection. Check console for details."))
  /\ UNCHANGED <<selStatus, selBody, selections, showAddDialog, editingSelection, selDraft, selErrors, currentDeletingId>>
  /\ UNCHANGED <<csvVars, detailVars, editVars, notesVars, controlVars, authVars, pageVars, formVars, mutVars>>

\* handleDelete from the i-th list item, one delete request at a time
handleDelete(i) ==
  /\ CardShown /\ ~DialogOpen
  /\ i \in 1..Len(selections)
  /\ SelectionList(user, selections)[i].delete
  /\ "delete" \notin selPending
  /\ currentDeletingId' = selections[i].v[1]
  /\ selPending' = selPending \cup {"delete"}
  /\ selStep' = Step("delete", TRUE, [NoResult EXCEPT !.mutate = TRUE])
  /\ UNCHANGED <<selStatus, selBody, selections, showAddDialog, editingSelection, selDraft, selErrors>>
  /\ UNCHANGED <<csvVars, detailVars, editVars, notesVars, controlVars, authVars, pageVars, formVars, mutVars>>

\* deleteMutation.onSuccess: invalidateQueries, toast, setCurrentDeletingId(null)
DeleteOk ==
  /\ "delete" \in selPending
  /\ selPending' = selPending \ {"delete"}
  /\ currentDeletingId' = 0
  /\ selStep' = Outcome("deleteOk", "Success", "Selection deleted successfully.")
  /\ UNCHANGED <<selStatus, selBody, selections, showAddDialog, editingSelection, selDraft, selErrors>>
  /\ UNCHANGED <<csvVars, detailVars, editVars, notesVars, controlVars, authVars, pageVars, formVars, mutVars>>

\* deleteMutation.onError: toast, setCurrentDeletingId(null)
DeleteFail(m) ==
  /\ "delete" \in selPending
  /\ selPending' = selPending \ {"delete"}
  /\ currentDeletingId' = 0
  /\ selStep' = Outcome("deleteFail", "Error Deleting Selection",
                        ErrorDescription(m, "Failed to delete selection. Check console for details."))
  /\ UNCHANGED <<selStatus, selBody, selections, showAddDialog, editingSelection, selDraft, selErrors>>
  /\ UNCHANGED <<csvVars, detailVars, editVars, notesVars, controlVars, authVars, pageVars, formVars, mutVars>>

\* the detail page of one placement, shown to a signed-in admin or student
InitSelections ==
  /\ storage \in Tokens
  /\ token = storage
  /\ user = UserOf(storage)
  /\ meInFlight = [t \in Tokens |-> 0]
  /\ isLoading = FALSE
  /\ authInFlight = [k \in AuthKinds |-> 0]
  /\ profInFlight = "idle"
  /\ lastEvent = Event("loginOk", storage, FALSE, "")
  /\ epoch = "loggedIn"
  /\ page = "detail"
  /\ dialog = "none"
  /\ offered = ""
  /\ lastReq = NoReq
  /\ selStatus = "loading"
  /\ selBody = NoBody
  /\ selections = << >>
  /\ showAddDialog = FALSE
  /\ editingSelection = 0
  /\ selDraft = DefaultDraft
  /\ selErrors = {}
  /\ selPending = {}
  /\ currentDeletingId = 0
  /\ selStep = NoStep
  /\ formOpen = "none"
  /\ formDraft = NoDraft
  /\ formErrors = {}
  /\ formPhase = "idle"
  /\ formStep = NoFormStep
  /\ cache = NoCache
  /\ detail = NoDetail
  /\ detailFetch = 0
  /\ mutPending = NoPending
  /\ mutStep = NoMutStep
  /\ csv = NoCsv
  /\ dp = NoDp
  /\ ep = NoEp
  /\ iv = NoIv
  /\ sc = NoSc

\* the responses of a placement that holds records 1 and 2
FormBodies == {Body(Json("array", <<1, 2>>), Absent)}

\* the two dialogs with everything their forms accept as input, on a
\* placement whose records do not change
NextSelectionForm ==
  \/ \E body \in FormBodies : FetchOk(body)
  \/ OpenAdd
  \/ \E i \in {1, 2} : handleEdit(i)
  \/ \E i \in 1..MaxStudents, st \in StudentInputs : SetStudent(i, st)
  \/ AppendStudent
  \/ \E i \in 1..MaxStudents : RemoveStudent(i)
  \/ \E t \in TextInputs : SetNextSteps(t)
  \/ \E l \in LinkInputs : SetDocumentLink(l)
  \/ \E t \in TextInputs : SetAdditionalNotes(t)
  \/ SubmitAdd
  \/ SubmitEdit
  \/ CloseDialog
  \/ AddOk
  \/ AddFail("server")
  \/ UpdateOk
  \/ UpdateFail("server")

SpecSelectionForm == InitSelections /\ [][NextSelectionForm]_vars

\* a student row filled in completely
CompleteStudent == StudentEntry("", "n", "r1", "b")

\* the card with every answer of the backend and every mutation, the forms
\* being filled with one complete student
NextSelections ==
  \/ \E body \in ServerBodies : FetchOk(body)
  \/ FetchFail
  \/ OpenAdd
  \/ \E i \in 1..MaxRecords : handleEdit(i)
  \/ SetStudent(1, CompleteStudent)
  \/ SubmitAdd
  \/ SubmitEdit
  \/ CloseDialog
  \/ AddOk
  \/ \E m \in FailMessages : AddFail(m)
  \/ UpdateOk
  \/ \E m \in FailMessages : UpdateFail(m)
  \/ \E i \in 1..MaxRecords : handleDelete(i)
  \/ DeleteOk
  \/ \E m \in FailMessages : DeleteFail(m)

SpecSelections == InitSelections /\ [][NextSelections]_vars

\* getSelectionsByPlacementId on its own: the backend has any body ready
InitNormalize ==
  /\ storage \in Tokens
  /\ token = storage
  /\ user = UserOf(storage)
  /\ meInFlight = [t \in Tokens |-> 0]
  /\ isLoading = FALSE
  /\ authInFlight = [k \in AuthKinds |-> 0]
  /\ profInFlight = "idle"
  /\ lastEvent = Event("loginOk", storage, FALSE, "")
  /\ epoch = "loggedIn"
  /\ page = "detail"
  /\ dialog = "none"
  /\ offered = ""
  /\ lastReq = NoReq
  /\ selStatus = "loading"
  /\ selBody \in {Body(many, one) : many \in JsonValues, one \in JsonValues}
  /\ selections = << >>
  /\ showAddDialog = FALSE
  /\ editingSelection = 0
  /\ selDraft = DefaultDraft
  /\ selErrors = {}
  /\ selPending = {}
  /\ currentDeletingId = 0
  /\ selStep = NoStep
  /\ formOpen = "none"
  /\ formDraft = NoDraft
  /\ formErrors = {}
  /\ formPhase = "idle"
  /\ formStep = NoFormStep
  /\ cache = NoCache
  /\ detail = NoDetail
  /\ detailFetch = 0
  /\ mutPending = NoPending
  /\ mutStep = NoMutStep
  /\ csv = NoCsv
  /\ dp = NoDp
  /\ ep = NoEp
  /\ iv = NoIv
  /\ sc = NoSc

NextNormalize ==
  \/ FetchOk(selBody)
  \/ FetchFail

SpecNormalize == InitNormalize /\ [][NextNormalize]_vars

(***************************************************************************)
(* Selections: claims                                                      *)
(***************************************************************************)
AtLeastOneStudent == "At least one student must be selected with complete details."

\* C6: right after an add-selection form was submitted while none of its
\* students has name, roll number and branch all filled in, no addSelection
\* request has been issued and a validation error is reported (field errors
\* on the form, or the Validation Error toast).
C6_NoCompleteStudentNoRequest ==
  (selStep.op = "submitAdd" /\ \A i \in 1..Len(selDraft.selectedStudents) : ~IsComplete(selDraft.selectedStudents[i])) =>
    /\ ~selStep.mutate
    /\ "add" \notin selPending
    /\ selErrors # {} \/ selStep.toast.title = "Validation Error"

\* C6 witness: a draft with a half-filled student and next steps was
\* submitted, stayed without a request and shows errors.
C6_Witness ==
  /\ selStep.op = "submitAdd"
  /\ \A i \in 1..Len(selDraft.selectedStudents) : ~IsComplete(selDraft.selectedStudents[i])
  /\ \E i \in 1..Len(selDraft.selectedStudents) : IsTouched(selDraft.selectedStudents[i])
  /\ selDraft.nextSteps # << >>
  /\ ~selStep.mutate
  /\ selErrors # {}

C8_NormalizedListing ==
  selStatus = "success" =>
    selections = IF selBody.selections.t = "array"
                   THEN [i \in 1..Len(selBody.selections.v) |-> Obj(selBody.selections.v[i])]
                 ELSE IF selBody.selection.t \in {"object", "array"} THEN <<selBody.selection>>
                 ELSE << >>

\* C8 witness: the body carried no selections array but a selection object,
\* and the client shows the one-element list holding it.
C8_Witness ==
  /\ selStatus = "success"
  /\ selBody.selections.t # "array"
  /\ selBody.selection.t = "object"
  /\ selections = <<selBody.selection>>

AddPlacementPage(d) == addPlacementSchema(d)

EditPlacementPage(d) == addPlacementSchema(d)

addUpdateForm(d) == addUpdateSchema(d)

editUpdateForm(d) == editUpdateSchema(d)

\* the add-interview form set up without a resolver
addInterviewForm_NoResolver(d) == {}

addInterviewForm(d) == interviewSchema(d)

editInterviewForm(d) == interviewSchema(d)

Resolver(fm, d) ==
  CASE fm = "addPlacement" -> AddPlacementPage(d)
    [] fm = "editPlacement" -> EditPlacementPage(d)
    [] fm = "addUpdate" -> addUpdateForm(d)
    [] fm = "editUpdate" -> editUpdateForm(d)
    [] fm = "addInterview" -> addInterviewForm(d)
    [] fm = "editInterview" -> editInterviewForm(d)
    [] fm = "addSelection" -> AddSelectionDialog(d)
    [] fm = "editSelection" -> EditSelectionDialog(d)

\* the submit handler of each form on validated data: whether it issues its
\* request (the placement, update and interview handlers always do, on a
\* page that has its placement id)
SubmitHandler(fm, d) ==
  CASE fm = "addSelection" -> handleAddSubmit(d).mutate
    [] fm = "editSelection" -> handleEditSubmit(d).mutate
    [] OTHER -> TRUE

\* the page a form lives on
PageOf(fm) ==
  CASE fm = "addPlacement" -> "add"
    [] fm = "editPlacement" -> "edit"
    [] OTHER -> "detail"

\* the page or dialog of form fm comes up with its default values
OpenForm(fm) ==
  /\ formOpen = "none"
  /\ formOpen' = fm
  /\ formDraft' = FormDefaults(fm)
  /\ formErrors' = {}
  /\ formPhase' = "idle"
  /\ formStep' = NoFormStep
  /\ page' = PageOf(fm)
  /\ UNCHANGED <<csvVars, detailVars, editVars, notesVars, controlVars, authVars, dialog, offered, lastReq, selVars, mutVars>>

\* a field of the open form takes a new value; while errors are shown the
\* resolver runs again on every change (reValidateMode onChange)
SetField ==
  /\ formOpen # "none"
  /\ \E f \in DOMAIN Inputs(formOpen) :
       \E v \in Inputs(formOpen)[f] :
         /\ v # formDraft[f]
         /\ formDraft' = [formDraft EXCEPT ![f] = v]
  /\ formErrors' = IF formErrors = {} THEN {} ELSE Resolver(formOpen, formDraft')
  /\ formStep' = NoFormStep
  /\ UNCHANGED <<csvVars, detailVars, editVars, notesVars, controlVars, mutVars, authVars, pageVars, selVars, formOpen, formPhase>>

\* the submit button (disabled while the request is pending):
\* form.handleSubmit(handler) validates, then shows the errors or runs the
\* handler
SubmitForm ==
  /\ formOpen # "none"
  /\ formPhase = "idle"
  /\ LET errs == Resolver(formOpen, formDraft)
     IN IF errs # {}
          THEN /\ formErrors' = errs
               /\ formPhase' = "idle"
               /\ formStep' = FormStep("submit", formOpen, formDraft, FALSE, FALSE)
          ELSE /\ formErrors' = {}
               /\ formPhase' = IF SubmitHandler(formOpen, formDraft) THEN "submitting" ELSE "idle"
               /\ formStep' = FormStep("submit", formOpen, formDraft, TRUE, SubmitHandler(formOpen, formDraft))
  /\ UNCHANGED <<csvVars, detailVars, editVars, notesVars, controlVars, mutVars, authVars, pageVars, selVars, formOpen, formDraft>>

\* the request succeeded: the dialog closes or the page navigates away
RequestOk ==
  /\ formPhase = "submitting"
  /\ formOpen' = "none"
  /\ formDraft' = NoDraft
  /\ formErrors' = {}
  /\ formPhase' = "idle"
  /\ formStep' = FormStep("ok", formOpen, formDraft, FALSE, FALSE)
  /\ UNCHANGED <<csvVars, detailVars, editVars, notesVars, controlVars, mutVars, authVars, pageVars, selVars>>

\* the request failed: the toast, the draft stays
RequestFail ==
  /\ formPhase = "submitting"
  /\ formPhase' = "idle"
  /\ formStep' = FormStep("fail", formOpen, formDraft, FALSE, FALSE)
  /\ UNCHANGED <<csvVars, detailVars, editVars, notesVars, controlVars, mutVars, authVars, pageVars, selVars, formOpen, formDraft, formErrors>>

\* Cancel, or leaving the page
CloseForm ==
  /\ formOpen # "none"
  /\ formPhase = "idle"
  /\ formOpen' = "none"
  /\ formDraft' = NoDraft
  /\ formErrors' = {}
  /\ formStep' = NoFormStep
  /\ UNCHANGED <<csvVars, detailVars, editVars, notesVars, controlVars, mutVars, authVars, pageVars, selVars, formPhase>>

\* an admin on the detail page of a placement, no form open
InitForms ==
  /\ storage = "tokA"
  /\ token = storage
  /\ user = UserOf(storage)
  /\ meInFlight = [t \in Tokens |-> 0]
  /\ isLoading = FALSE
  /\ authInFlight = [k \in AuthKinds |-> 0]
  /\ profInFlight = "idle"
  /\ lastEvent = Event("loginOk", storage, FALSE, "")
  /\ epoch = "loggedIn"
  /\ page = "detail"
  /\ dialog = "none"
  /\ offered = ""
  /\ lastReq = NoReq
  /\ selStatus = "loading"
  /\ selBody = NoBody
  /\ selections = << >>
  /\ showAddDialog = FALSE
  /\ editingSelection = 0
  /\ selDraft = DefaultDraft
  /\ selErrors = {}
  /\ selPending = {}
  /\ currentDeletingId = 0
  /\ selStep = NoStep
  /\ formOpen = "none"
  /\ formDraft = NoDraft
  /\ formErrors = {}
  /\ formPhase = "idle"
  /\ formStep = NoFormStep
  /\ cache = NoCache
  /\ detail = NoDetail
  /\ detailFetch = 0
  /\ mutPending = NoPending
  /\ mutStep = NoMutStep
  /\ csv = NoCsv
  /\ dp = NoDp
  /\ ep = NoEp
  /\ iv = NoIv
  /\ sc = NoSc

NextForms ==
  \/ \E fm \in Forms : OpenForm(fm)
  \/ SetField
  \/ SubmitForm
  \/ RequestOk
  \/ RequestFail
  \/ CloseForm

SpecForms == InitForms /\ [][NextForms]_vars

\* C10: right after any of the eight forms was submitted with a draft its
\* schema rejects, the submit handler has not run, no request was issued,
\* the form is idle again with the draft it was submitted with, and the
\* field errors are shown.
C10_InvalidDraftBlocked ==
  ( /\ formStep.op = "submit"
    /\ (CASE formStep.form \in {"addPlacement", "editPlacement"} -> addPlacementSchema(formStep.before)
          [] formStep.form = "addUpdate" -> addUpdateSchema(formStep.before)
          [] formStep.form = "editUpdate" -> editUpdateSchema(formStep.before)
          [] formStep.form \in {"addInterview", "editInterview"} -> interviewSchema(formStep.before)
          [] formStep.form \in {"addSelection", "editSelection"} -> selectionSchema(formStep.before)) # {} )
  => /\ ~formStep.handled
     /\ ~formStep.request
     /\ formPhase = "idle"
     /\ formOpen = formStep.form
     /\ formDraft = formStep.before
     /\ formErrors # {}

\* C10 witness: an edited add-interview draft that still lacks its start
\* time was submitted and the form is idle with that draft and its error.
C10_Witness ==
  /\ formStep.op = "submit"
  /\ formStep.form = "addInterview"
  /\ formDraft.interviewDate = "v"
  /\ formDraft.startTime = ""
  /\ FieldError("startTime", 0, "Start time is required") \in formErrors
  /\ ~formStep.handled
  /\ formPhase = "idle"

(***************************************************************************)
(* Mutations: requests, their handlers, the query cache and the detail     *)
(* page's own fetch                                                        *)
(***************************************************************************)
\* the forms shown in a dialog of the detail page, and those of them that
\* live in PlacementInterviews and PlacementSelections
DialogForms ==
  {"addUpdate", "editUpdate", "addInterview", "editInterview", "addSelection", "editSelection"}

ChildForms == {"addInterview", "editInterview", "addSelection", "editSelection"}

ChildMutations == ChildForms \cup {"deleteInterview", "deleteSelection"}

DeleteControls == {"deletePlacement", "deleteUpdate", "deleteInterview", "deleteSelection"}

\* PlacementDetailPage renders its header, updates, interviews and
\* selections once a placement is held and no error is set
Shown(pg, dt) == pg = "detail" /\ dt.placement # "none" /\ dt.error = ""

\* the query keys with a mounted useQuery observer: EditPlacementPage
\* observes ['placement', id], PlacementInterviews and PlacementSelections
\* their lists
ActiveKeys(pg, dt) ==
  CASE pg = "edit" -> {"placement"}
    [] Shown(pg, dt) -> {"interviews", "selections"}
    [] OTHER -> {}

\* useQuery observers mounting (default staleTime 0: a mounting observer
\* always fetches)
Mount(c, old, new) == [k \in CacheKeys |-> IF k \in new \ old THEN "held" ELSE c[k]]

\* queryClient.invalidateQueries({ queryKey }): entries in the cache are
\* marked invalidated, and refetched at once where an observer is mounted
Invalidate(c, keys, active) ==
  [k \in CacheKeys |->
     IF k \notin keys \/ c[k] = "absent" THEN c[k]
     ELSE IF k \notin active THEN "invalidated"
     ELSE "held"]

\* the entry of key k holds data
HasData(c, k) == c[k] # "absent"

\* the form or delete button of mutation mu is on screen: the edit page
\* and the two cards show their content once their query has data
Rendered(mu, pg, dt, c) ==
  CASE mu = "addPlacement" -> pg = "add"
    [] mu = "editPlacement" -> pg = "edit" /\ HasData(c, "placement")
    [] mu \in {"addInterview", "editInterview", "deleteInterview"} ->
         Shown(pg, dt) /\ HasData(c, "interviews")
    [] mu \in {"addSelection", "editSelection", "deleteSelection"} ->
         Shown(pg, dt) /\ HasData(c, "selections")
    [] OTHER -> Shown(pg, dt)

\* the components that issued the requests of mus unmount
Orphan(p, mus) ==
  LET gone == {x \in BagToSet(p) : x[2] /\ x[1] \in mus}
  IN (p (-) [x \in gone |-> CopiesIn(x, p)])
       (+) [x \in {<<y[1], FALSE>> : y \in gone} |-> CopiesIn(<<x[1], TRUE>>, p)]

\* the number of mutation requests in flight
InFlight(p) == BagCardinality(p)

\* the edit form that shows the same fields as form fm
EditOf(fm) ==
  CASE fm \in {"addPlacement", "editPlacement"} -> "editPlacement"
    [] fm \in {"addUpdate", "editUpdate"} -> "editUpdate"
    [] fm \in {"addInterview", "editInterview"} -> "editInterview"
    [] OTHER -> "editSelection"

\* a complete draft of form fm
SampleDraft(fm) == LoadedEntity(EditOf(fm))

\* the form a page shows
FormOn(pg) ==
  CASE pg = "add" -> "addPlacement"
    [] pg = "edit" -> "editPlacement"
    [] OTHER -> "none"

\* the route changes to pg: the page in view unmounts with its forms and
\* dialogs, the new page mounts (PlacementDetailPage starts its fetch in
\* useEffect, the useQuery observers of the new page mount)
Arrive(pg, c, p) ==
  /\ page' = pg
  /\ dialog' = "none"
  /\ formOpen' = FormOn(pg)
  /\ formDraft' = IF FormOn(pg) = "none" THEN NoDraft ELSE FormDefaults(FormOn(pg))
  /\ formErrors' = {}
  /\ detail' = IF pg = "detail" THEN MountedDetail ELSE NoDetail
  /\ detailFetch' = IF pg = "detail" THEN 1 ELSE 0
  /\ mutPending' = Orphan(p, Mutations)
  /\ cache' = Mount(c, ActiveKeys(page, detail), ActiveKeys(pg, detail'))

\* following a link: the list, the detail page, the add or the edit page
GoTo(pg) ==
  /\ pg # page
  /\ Arrive(pg, cache, mutPending)
  /\ mutStep' = UserStep("goto")
  /\ UNCHANGED <<csvVars, detailVars, editVars, notesVars, controlVars, authVars, offered, lastReq, selVars, formPhase, formStep>>

\* fetchPlacementDetails: getPlacementById answered
fetchPlacementDetailsOk ==
  /\ page = "detail"
  /\ detailFetch > 0
  /\ detailFetch' = detailFetch - 1
  /\ detail' = [placement |-> "X", isLoading |-> FALSE, error |-> ""]
  /\ cache' = Mount(cache, ActiveKeys(page, detail), ActiveKeys(page, detail'))
  /\ mutStep' = MutStep("fetchOk", "", 200, << >>, 0, {}, FALSE, FALSE)
  /\ UNCHANGED <<csvVars, detailVars, editVars, notesVars, controlVars, authVars, pageVars, selVars, formVars, mutPending>>

\* fetchPlacementDetails: getPlacementById failed; the error view replaces
\* the header and the cards, whose components unmount
fetchPlacementDetailsFail(e) ==
  /\ page = "detail"
  /\ detailFetch > 0
  /\ detailFetch' = detailFetch - 1
  /\ detail' = [detail EXCEPT !.isLoading = FALSE,
                              !.error = ErrorDescription(e.message, "Failed to load placement details.")]
  /\ dialog' = "none"
  /\ formOpen' = IF formOpen \in ChildForms THEN "none" ELSE formOpen
  /\ formDraft' = IF formOpen \in ChildForms THEN NoDraft ELSE formDraft
  /\ formErrors' = IF formOpen \in ChildForms THEN {} ELSE formErrors
  /\ mutPending' = Orphan(mutPending, ChildMutations)
  /\ mutStep' = MutStep("fetchFail", "", e.status,
                        <<Notice("Error", ErrorDescription(e.message, "Failed to load placement details."), "destructive")>>,
                        0, {}, FALSE, FALSE)
  /\ UNCHANGED <<csvVars, detailVars, editVars, notesVars, controlVars, authVars, page, offered, lastReq, selVars, formPhase, formStep, cache>>

\* a dialog form of the detail page opens with its default values
OpenDialogForm(fm) ==
  /\ Rendered(fm, page, detail, cache)
  /\ RoleOf(user) = "admin"
  /\ formOpen = "none"
  /\ dialog = "none"
  /\ fm = "addSelection" =>
       CopiesIn(<<"addSelection", TRUE>>, mutPending) + CopiesIn(<<"editSelection", TRUE>>, mutPending) = 0
  /\ formOpen' = fm
  /\ formDraft' = FormDefaults(fm)
  /\ formErrors' = {}
  /\ mutStep' = UserStep("open")
  /\ UNCHANGED <<csvVars, detailVars, editVars, notesVars, controlVars, authVars, pageVars, selVars, formPhase, formStep,
                 cache, detail, detailFetch, mutPending>>

\* the user fills the open form completely
FillForm ==
  /\ formOpen # "none"
  /\ Rendered(formOpen, page, detail, cache)
  /\ formDraft # SampleDraft(formOpen)
  /\ formDraft' = SampleDraft(formOpen)
  /\ formErrors' = IF formErrors = {} THEN {} ELSE Resolver(formOpen, formDraft')
  /\ mutStep' = UserStep("fill")
  /\ UNCHANGED <<csvVars, detailVars, editVars, notesVars, controlVars, authVars, pageVars, selVars, formOpen, formPhase, formStep,
                 cache, detail, detailFetch, mutPending>>

\* Cancel in a dialog form
CancelForm ==
  /\ formOpen \in DialogForms
  /\ Rendered(formOpen, page, detail, cache)
  /\ formOpen' = "none"
  /\ formDraft' = NoDraft
  /\ formErrors' = {}
  /\ mutStep' = UserStep("close")
  /\ UNCHANGED <<csvVars, detailVars, editVars, notesVars, controlVars, authVars, pageVars, selVars, formPhase, formStep,
                 cache, detail, detailFetch, mutPending>>

\* the submit button of the open form (disabled while its mutation is
\* pending): form.handleSubmit validates, then the submit handler issues
\* the request
Submit ==
  /\ formOpen # "none"
  /\ Rendered(formOpen, page, detail, cache)
  /\ CopiesIn(<<formOpen, TRUE>>, mutPending) = 0
  /\ LET errs == Resolver(formOpen, formDraft)
         issues == errs = {} /\ SubmitHandler(formOpen, formDraft)
     IN /\ issues => InFlight(mutPending) < MaxPending
        /\ formErrors' = errs
        /\ mutPending' = IF issues THEN mutPending (+) SetToBag({<<formOpen, TRUE>>})
                         ELSE mutPending
        /\ mutStep' = MutStep("submit", formOpen, 0, << >>, IF issues THEN 1 ELSE 0,
                              {}, FALSE, FALSE)
  /\ UNCHANGED <<csvVars, detailVars, editVars, notesVars, controlVars, authVars, pageVars, selVars, formOpen, formDraft, formPhase,
                 formStep, cache, detail, detailFetch>>

\* what the delete button of each entity does when pressed: it is the
\* trigger of an AlertDialog
PlacementHeaderDelete_NoDialog == "direct"

PlacementHeaderDelete == "AlertDialog"

InterviewCardDelete == "AlertDialog"

UpdateCardItemDelete == "AlertDialog"

SelectionListItemDelete == "AlertDialog"

DeleteButton(c) ==
  CASE c = "deletePlacement" -> PlacementHeaderDelete
    [] c = "deleteUpdate" -> UpdateCardItemDelete
    [] c = "deleteInterview" -> InterviewCardDelete
    [] c = "deleteSelection" -> SelectionListItemDelete

\* pressing the delete button of an entity
PressDelete(c) ==
  /\ Rendered(c, page, detail, cache)
  /\ c \in MutationControls(user, page)
  /\ dialog = "none"
  /\ formOpen = "none"
  /\ IF DeleteButton(c) = "AlertDialog"
       THEN /\ dialog' = c
            /\ mutStep' = UserStep("press")
            /\ UNCHANGED mutPending
       ELSE /\ InFlight(mutPending) < MaxPending
            /\ dialog' = "none"
            /\ mutPending' = mutPending (+) SetToBag({<<c, TRUE>>})
            /\ mutStep' = MutStep("press", c, 0, << >>, 1, {}, FALSE, FALSE)
  /\ UNCHANGED <<csvVars, detailVars, editVars, notesVars, controlVars, authVars, page, offered, lastReq, selVars, formVars, cache, detail, detailFetch>>

\* AlertDialogAction: the delete handler of the entity runs and sends its
\* request
AlertDialogAction ==
  /\ dialog \in DeleteControls
  /\ InFlight(mutPending) < MaxPending
  /\ dialog' = "none"
  /\ mutPending' = mutPending (+) SetToBag({<<dialog, TRUE>>})
  /\ mutStep' = MutStep("confirm", dialog, 0, << >>, 1, {}, FALSE, FALSE)
  /\ UNCHANGED <<csvVars, detailVars, editVars, notesVars, controlVars, authVars, page, offered, lastReq, selVars, formVars, cache, detail, detailFetch>>

\* AlertDialogCancel
AlertDialogCancel ==
  /\ dialog \in DeleteControls
  /\ dialog' = "none"
  /\ mutStep' = UserStep("cancel")
  /\ UNCHANGED <<csvVars, detailVars, editVars, notesVars, controlVars, authVars, page, offered, lastReq, selVars, formVars,
                 cache, detail, detailFetch, mutPending>>

\* the request of mutation mu succeeded: onSuccess of a useMutation, or the
\* rest of the try block of a PlacementDetailPage handler; live tells
\* whether the component that issued it is still mounted
onSuccess(mu, live) ==
  /\ CopiesIn(<<mu, live>>, mutPending) > 0
  /\ LET h == HandlerOf(mu)
         p1 == mutPending (-) SetToBag({<<mu, live>>})
         c1 == Invalidate(cache, h.invalidates, ActiveKeys(page, detail))
         moves == h.navigate # "" /\ h.navigate # page
         closes == h.closes /\ live /\ formOpen = mu
         refetch == h.refetch /\ live
     IN /\ refetch => detailFetch < MaxPending
        /\ IF moves
             THEN Arrive(h.navigate, c1, p1)
             ELSE /\ cache' = c1
                  /\ mutPending' = p1
                  /\ formOpen' = IF closes THEN "none" ELSE formOpen
                  /\ formDraft' = IF closes THEN NoDraft ELSE formDraft
                  /\ formErrors' = IF closes THEN {} ELSE formErrors
                  /\ detail' = IF refetch THEN [detail EXCEPT !.isLoading = TRUE] ELSE detail
                  /\ detailFetch' = IF refetch THEN detailFetch + 1 ELSE detailFetch
                  /\ UNCHANGED <<page, dialog>>
        /\ mutStep' = MutStep("onSuccess", mu, 200, <<h.success>>, 0, h.invalidates,
                              h.refetch, h.navigate # "")
  /\ UNCHANGED <<csvVars, detailVars, editVars, notesVars, controlVars, authVars, offered, lastReq, selVars, formPhase, formStep>>

\* an error handler that also closes the form it belongs to
onError_ClosesForm(mu, live, e) ==
  /\ CopiesIn(<<mu, live>>, mutPending) > 0
  /\ mutPending' = mutPending (-) SetToBag({<<mu, live>>})
  /\ formOpen' = IF formOpen = mu THEN "none" ELSE formOpen
  /\ formDraft' = IF formOpen = mu THEN NoDraft ELSE formDraft
  /\ mutStep' = MutStep("onError", mu, e.status,
                        <<Notice(HandlerOf(mu).errorTitle,
                                 ErrorDescription(e.message, HandlerOf(mu).fallback), "destructive")>>,
                        0, {}, FALSE, FALSE)
  /\ UNCHANGED <<csvVars, detailVars, editVars, notesVars, controlVars, authVars, pageVars, selVars, formErrors, formPhase, formStep,
                 cache, detail, detailFetch>>

\* an error handler that sends the failed request again
onError_Retries(mu, live, e) ==
  /\ CopiesIn(<<mu, live>>, mutPending) > 0
  /\ mutStep' = MutStep("onError", mu, e.status,
                        <<Notice(HandlerOf(mu).errorTitle,
                                 ErrorDescription(e.message, HandlerOf(mu).fallback), "destructive")>>,
                        1, {}, FALSE, FALSE)
  /\ UNCHANGED <<csvVars, detailVars, editVars, notesVars, controlVars, authVars, pageVars, selVars, formVars, cache, detail, detailFetch, mutPending>>

\* the request of mutation mu failed with status st: onError of a
\* useMutation, or the catch block of a PlacementDetailPage handler
onError(mu, live, e) ==
  /\ CopiesIn(<<mu, live>>, mutPending) > 0
  /\ mutPending' = mutPending (-) SetToBag({<<mu, live>>})
  /\ mutStep' = MutStep("onError", mu, e.status,
                        <<Notice(HandlerOf(mu).errorTitle,
                                 ErrorDescription(e.message, HandlerOf(mu).fallback), "destructive")>>,
                        0, {}, FALSE, FALSE)
  /\ UNCHANGED <<csvVars, detailVars, editVars, notesVars, controlVars, authVars, pageVars, selVars, formVars, cache, detail, detailFetch>>

\* an admin has just opened the detail page of placement X
InitMutations ==
  /\ storage = "tokA"
  /\ token = storage
  /\ user = UserOf(storage)
  /\ meInFlight = [t \in Tokens |-> 0]
  /\ isLoading = FALSE
  /\ authInFlight = [k \in AuthKinds |-> 0]
  /\ profInFlight = "idle"
  /\ lastEvent = Event("loginOk", storage, FALSE, "")
  /\ epoch = "loggedIn"
  /\ page = "detail"
  /\ dialog = "none"
  /\ offered = ""
  /\ lastReq = NoReq
  /\ selStatus = "loading"
  /\ selBody = NoBody
  /\ selections = << >>
  /\ showAddDialog = FALSE
  /\ editingSelection = 0
  /\ selDraft = DefaultDraft
  /\ selErrors = {}
  /\ selPending = {}
  /\ currentDeletingId = 0
  /\ selStep = NoStep
  /\ formOpen = "none"
  /\ formDraft = NoDraft
  /\ formErrors = {}
  /\ formPhase = "idle"
  /\ formStep = NoFormStep
  /\ cache = NoCache
  /\ detail = MountedDetail
  /\ detailFetch = 1
  /\ mutPending = NoPending
  /\ mutStep = NoMutStep
  /\ csv = NoCsv
  /\ dp = NoDp
  /\ ep = NoEp
  /\ iv = NoIv
  /\ sc = NoSc

NextMutations ==
  \/ \E pg \in {"list", "detail", "add", "edit"} : GoTo(pg)
  \/ fetchPlacementDetailsOk
  \/ \E e \in Failures : fetchPlacementDetailsFail(e)
  \/ \E fm \in DialogForms : OpenDialogForm(fm)
  \/ FillForm
  \/ CancelForm
  \/ Submit
  \/ \E c \in DeleteControls : PressDelete(c)
  \/ AlertDialogAction
  \/ AlertDialogCancel
  \/ \E mu \in Mutations, live \in BOOLEAN : onSuccess(mu, live)
  \/ \E mu \in Mutations, live \in BOOLEAN, e \in Failures : onError(mu, live, e)

SpecMutations == InitMutations /\ [][NextMutations]_vars

\* C11: right after the success handler of a mutation ran, every cached
\* view keyed by the affected entity or its placement has been invalidated
\* (the placement list and the cached placement after a placement edit or
\* delete, the placement list after a create, the interviews or selections
\* list after an interview or selection mutation), and after an update
\* mutation the detail page has refetched its placement.
C11_SuccessInvalidatesViews ==
  mutStep.op = "onSuccess" =>
    /\ \A k \in CacheKeys :
         ( /\ cache[k] # "absent"
           /\ \/ k = "placements" /\ mutStep.mu \in {"addPlacement", "editPlacement", "deletePlacement"}
              \/ k = "placement" /\ mutStep.mu \in {"editPlacement", "deletePlacement"}
              \/ k = "interviews" /\ mutStep.mu \in {"addInterview", "editInterview", "deleteInterview"}
              \/ k = "selections" /\ mutStep.mu \in {"addSelection", "editSelection", "deleteSelection"} )
         => k \in mutStep.invalidated
    /\ mutStep.mu \in {"addUpdate", "editUpdate", "deleteUpdate"} => mutStep.refetched

\* C12: the step in which a mutation request issued from a form fails
\* leaves the form on screen, its draft and its errors as they were, moves
\* to no other page, opens or closes no dialog, touches neither the query
\* cache nor the placement held by the detail page, and raises one
\* destructive notice whose text is the server's message when the response
\* carries one and that form's fallback message otherwise.
C12_FailureLeavesFormAlone ==
  [][ (mutStep'.op = "onError" /\ mutStep'.mu \in Forms) =>
        /\ formOpen' = formOpen
        /\ formDraft' = formDraft
        /\ formErrors' = formErrors
        /\ page' = page
        /\ dialog' = dialog
        /\ cache' = cache
        /\ detail' = detail
        /\ detailFetch' = detailFetch
        /\ mutStep'.invalidated = {}
        /\ ~mutStep'.navigated
        /\ Len(mutStep'.notices) = 1
        /\ mutStep'.notices[1].variant = "destructive"
        /\ mutStep'.notices[1].description =
             IF mutStep'.status = 403 THEN "message from the server"
             ELSE HandlerOf(mutStep'.mu).fallback ]_vars

\* C12 witness: the add-update request of a filled dialog was refused with
\* a message from the server, and the dialog is still open with that draft.
C12_Witness ==
  /\ mutStep.op = "onError"
  /\ mutStep.mu = "addUpdate"
  /\ mutStep.status = 403
  /\ page = "detail"
  /\ formOpen = "addUpdate"
  /\ formDraft = SampleDraft("addUpdate")

\* C13: every failed operation of the session holder (the session restore,
\* login, signup, the profile update) raised a notice.
C13_EveryFailureNotifies ==
  lastEvent.op \in {"loadUserFail", "loginFail", "signupFail", "profileFail"}
    => lastEvent.toast # ""

\* C14: a step puts at most one mutation request in flight, only a submit
\* or a confirmed delete of the user does so, and the step in which a
\* request fails sends nothing and raises exactly one destructive notice.
C14_OneRequestOneNotice ==
  [][ LET before == InFlight(mutPending)
          after == InFlight(mutPending')
      IN /\ mutPending' # mutPending =>
               /\ after <= before + 1
               /\ after > before =>
                     mutStep'.op \in {"submit", "confirm"} /\ mutStep'.requests = 1
         /\ mutStep'.op = "onError" =>
               /\ after = before - 1
               /\ mutStep'.requests = 0
               /\ Len(mutStep'.notices) = 1
               /\ mutStep'.notices[1].variant = "destructive" ]_vars

\* C14 witness: the one addSelection request of a submission failed, its
\* notice is up and nothing is in flight.
C14_Witness ==
  /\ mutStep.op = "onError"
  /\ mutStep.mu = "addSelection"
  /\ Len(mutStep.notices) = 1
  /\ InFlight(mutPending) = 0

\* C15: right after a mutation request or the placement fetch was answered
\* 401 or 403, the stored token, the token and the user are cleared.
C15_UnauthorizedEndsSession ==
  (mutStep.op \in {"onError", "fetchFail"} /\ mutStep.status \in {401, 403}) =>
    /\ storage = NoToken
    /\ token = NoToken
    /\ user = NoUser

\* C16: a delete request is sent only by the Delete action of the
\* confirmation dialog that the delete button of that same entity opened,
\* and Cancel in that dialog sends nothing and changes nothing but closing
\* the dialog.
C16_DeleteNeedsConfirmation ==
  [][ /\ \A c \in DeleteControls :
            CopiesIn(<<c, TRUE>>, mutPending') > CopiesIn(<<c, TRUE>>, mutPending) =>
              dialog = c /\ mutStep'.op = "confirm" /\ mutStep'.mu = c
      /\ mutStep'.op = "cancel" =>
            /\ dialog \in DeleteControls
            /\ dialog' = "none"
            /\ UNCHANGED <<authVars, page, offered, lastReq, selVars, formVars,
                           cache, detail, detailFetch, mutPending>> ]_vars

\* C16 witness: the delete of the placement was confirmed and its request
\* is in flight.
C16_Witness ==
  /\ mutStep.op = "confirm"
  /\ mutStep.mu = "deletePlacement"
  /\ CopiesIn(<<"deletePlacement", TRUE>>, mutPending) = 1
  /\ dialog = "none"

\* C17: when the delete request of the placement succeeds, the success
\* notice is raised and the route becomes the placement list; when it
\* fails, one destructive notice is raised, the route stays and the
\* placement held by the detail page is as it was.
C17_DeletePlacementOutcome ==
  [][ /\ (mutStep'.op = "onSuccess" /\ mutStep'.mu = "deletePlacement") =>
            /\ page' = "list"
            /\ mutStep'.notices = <<Notice("Success", "Placement deleted successfully.", "default")>>
      /\ (mutStep'.op = "onError" /\ mutStep'.mu = "deletePlacement") =>
            /\ page' = page
            /\ detail' = detail
            /\ Len(mutStep'.notices) = 1
            /\ mutStep'.notices[1].variant = "destructive" ]_vars

\* C17 witness: the confirmed delete of placement X was answered 403 and
\* the detail page still shows X.
C17_Witness ==
  /\ mutStep.op = "onError"
  /\ mutStep.mu = "deletePlacement"
  /\ mutStep.status = 403
  /\ page = "detail"
  /\ detail.placement = "X"

(***************************************************************************)
(* The placement forms' comma-separated fields: a text typed on the add    *)
(* page, the payload of the create request, the edit page filled from the  *)
(* stored placement, the payload of the update request                     *)
(***************************************************************************)

\* handleSubmit(onSubmit) of the add page: the resolver first, then the
\* payload handed to mutation.mutate
AddPlacementSubmit ==
  /\ csv.stage = "typed"
  /\ csv' = IF PassesValidation(csv.data)
            THEN [csv EXCEPT !.stage = "added", !.payload = AddPlacementPayload(csv.data)]
            ELSE [csv EXCEPT !.stage = "invalid"]
  /\ UNCHANGED <<authVars, pageVars, selVars, formVars, mutVars, detailVars, editVars, notesVars, controlVars>>

\* the edit page opened on the placement just created: getPlacementById
\* answers with the lists as they were sent (the selection process as an
\* array or as a legacy string), the effect resets the form
EditPlacementLoad ==
  /\ csv.stage = "added"
  /\ \E sep \in {<< >>} \cup (IF csv.payload.selectionProcess.defined THEN LegacySeparators ELSE {}) :
       csv' = [csv EXCEPT !.stage = "loaded", !.stored = StoredAs(csv.payload, sep),
                          !.data = EditPlacementReset(StoredAs(csv.payload, sep))]
  /\ UNCHANGED <<authVars, pageVars, selVars, formVars, mutVars, detailVars, editVars, notesVars, controlVars>>

\* handleSubmit(onSubmit) of the edit page, the form left as it was filled
EditPlacementSubmit ==
  /\ csv.stage = "loaded"
  /\ csv' = IF PassesValidation(csv.data)
            THEN [csv EXCEPT !.stage = "edited", !.payload = EditPlacementPayload(csv.data)]
            ELSE [csv EXCEPT !.stage = "invalidEdit"]
  /\ UNCHANGED <<authVars, pageVars, selVars, formVars, mutVars, detailVars, editVars, notesVars, controlVars>>

\* an admin on the add page, one field holding any text, the rest valid
InitPayload ==
  /\ storage = "tokA"
  /\ token = storage
  /\ user = UserOf(storage)
  /\ meInFlight = [t \in Tokens |-> 0]
  /\ isLoading = FALSE
  /\ authInFlight = [k \in AuthKinds |-> 0]
  /\ profInFlight = "idle"
  /\ lastEvent = Event("loginOk", storage, FALSE, "")
  /\ epoch = "loggedIn"
  /\ page = "add"
  /\ dialog = "none"
  /\ offered = ""
  /\ lastReq = NoReq
  /\ selStatus = "loading"
  /\ selBody = NoBody
  /\ selections = << >>
  /\ showAddDialog = FALSE
  /\ editingSelection = 0
  /\ selDraft = DefaultDraft
  /\ selErrors = {}
  /\ selPending = {}
  /\ currentDeletingId = 0
  /\ selStep = NoStep
  /\ formOpen = "none"
  /\ formDraft = NoDraft
  /\ formErrors = {}
  /\ formPhase = "idle"
  /\ formStep = NoFormStep
  /\ cache = NoCache
  /\ detail = NoDetail
  /\ detailFetch = 0
  /\ mutPending = NoPending
  /\ mutStep = NoMutStep
  /\ dp = NoDp
  /\ ep = NoEp
  /\ iv = NoIv
  /\ sc = NoSc
  /\ \E fd \in TypedFields, f \in CsvInputs :
       csv = [stage |-> "typed", field |-> fd, input |-> f, data |-> TypedDraft(fd, f),
              payload |-> NoPlacement, stored |-> NoPlacement]

NextPayload ==
  \/ AddPlacementSubmit
  \/ EditPlacementLoad
  \/ EditPlacementSubmit

SpecPayload == InitPayload /\ [][NextPayload]_vars

\* C18: every create or update request carries a non-empty title, job
\* designation, CTC details and company name, non-empty eligibleBranches and
\* batches lists and a status among Upcoming, Ongoing, Completed, whatever
\* input passed validation
C18_RequestCarriesRequiredFields ==
  csv.stage \in {"added", "edited"} =>
    /\ csv.payload.title # << >>
    /\ csv.payload.jobDesignation # ""
    /\ csv.payload.ctcDetails # ""
    /\ csv.payload.companyName # ""
    /\ csv.payload.batches.defined /\ csv.payload.batches.list # << >>
    /\ csv.payload.eligibleBranches.defined /\ csv.payload.eligibleBranches.list # << >>
    /\ csv.payload.status \in {"Upcoming", "Ongoing", "Completed"}

\* C19: for every text S of a comma-separated field the list in the payload
\* is the sequence of the comma-delimited tokens of S in their order, each
\* trimmed, the empty ones removed
C19_PayloadListIsTokens ==
  /\ csv.stage = "added" /\ csv.field \in CsvFields =>
       csv.payload[csv.field] = Defined(SplitTrimFilter(csv.input, ","))
  /\ csv.stage = "edited" =>
       \A fd \in CsvFields \ {"driveRounds"} :
         csv.payload[fd] = Defined(SplitTrimFilter(csv.data[fd], ","))

\* C20: transform(join(transform(S))) = transform(S) for every text S, with
\* transform the split, trim and filter of the submit handlers and join the
\* comma-and-space join of the edit form; and so a list sent by the add page
\* and shown by the edit page is sent again unchanged
C20_TransformJoinTransform ==
  /\ RequiredList(ListToField(RequiredList(csv.input).list)) = RequiredList(csv.input)
  /\ csv.stage = "edited" /\ csv.field \in {"batches", "eligibleBranches"} =>
       /\ csv.stored[csv.field] = RequiredList(csv.input)
       /\ csv.data[csv.field] = ListToField(csv.stored[csv.field].list)
       /\ csv.payload[csv.field] = csv.stored[csv.field]

\* a text with blanks around its tokens and an empty token went from the add
\* page through the edit page and was sent again
C20_Witness ==
  /\ csv.stage = "edited"
  /\ csv.field = "batches"
  /\ csv.input = <<"a", ",", " ", "b">>
  /\ csv.data.batches = <<"a", ",", " ", "b">>
  /\ csv.payload.batches.list = << <<"a">>, <<"b">> >>

\* C21: for each optional URL field of the placement and selection forms
\* (company website, job-description link, apply link, registration link,
\* selection document link) validation accepts an absent value and the
\* empty string and rejects every non-empty string that is not a URL: a
\* submit reports an error on the field exactly when it holds such a string,
\* and the handler never runs with one
C21_OptionalUrlFields ==
  (formStep.op = "submit" /\ formStep.form \in {"addPlacement", "editPlacement", "addSelection", "editSelection"}) =>
    \A f \in (IF formStep.form \in {"addPlacement", "editPlacement"}
              THEN {"companyWebsite", "jobDescriptionLink", "applyLink", "registrationLink"}
              ELSE {"documentLink"}) :
      /\ (\E e \in formErrors : e.field = f)
           <=> (formStep.before[f] \notin {Undefined, ""} /\ ~IsUrl(formStep.before[f]))
      /\ formStep.handled => (formStep.before[f] \in {Undefined, ""} \/ IsUrl(formStep.before[f]))
      /\ \A v \in {Undefined, ""} :
           \A e \in Resolver(formStep.form, [formStep.before EXCEPT ![f] = v]) : e.field # f

\* C21 witness: the add-placement form was submitted with an empty company
\* website and a job-description link that is no URL; only the link is
\* reported and the handler did not run
C21_Witness ==
  /\ formStep.op = "submit"
  /\ formStep.form = "addPlacement"
  /\ formStep.before.companyWebsite = ""
  /\ formStep.before.jobDescriptionLink = "not a url"
  /\ FieldError("jobDescriptionLink", 0, "Invalid job description link URL") \in formErrors
  /\ \A e \in formErrors : e.field # "companyWebsite"
  /\ ~formStep.handled

\* C22 (as claimed): a successful login or signup leaves the session
\* Authenticated with the newly issued token stored, and the failure of a
\* who-am-i request that was started for an earlier token never removes the
\* new token from storage or clears the new user
C22_LoginSurvivesStaleFailure ==
  [][ /\ lastEvent'.op \in {"loginOk", "signupOk"} =>
            /\ storage' = lastEvent'.tok
            /\ token' = lastEvent'.tok
            /\ IsAuthenticated(user')
      /\ ( /\ epoch = "loggedIn"
           /\ storage # NoToken
           /\ lastEvent'.op = "loadUserFail"
           /\ lastEvent'.tok # storage ) =>
            /\ storage' = storage
            /\ token' = token
            /\ user' = user ]_vars

(***************************************************************************)
(* PlacementDetailPage: the route id, fetchPlacementDetails and the update *)
(* handlers that await a request and then fetch again                      *)
(***************************************************************************)
\* fetchPlacementDetails calls over the life of the page
MaxFetches == 3

\* the placement ids a route may name
RouteIds == {"X", "Y"}

\* useState(null) for the placement
NoData == [id |-> "", seq |-> 0]

\* the three render guards: the loader, the error view, "not found"
DetailShown(d) == ~(d.isLoading /\ d.placement = NoData) /\ d.error = "" /\ d.placement # NoData

\* the handlers awaiting their request, each still to call
\* fetchPlacementDetails, and the calls already made
Planned(d) == d.issued + BagCardinality(d.calls)

\* fetchPlacementDetails up to its await, called by the effect or by the
\* handler named: setIsLoading(true), getPlacementById(id) leaves
StartFetch(d, id, by) ==
  [d EXCEPT !.isLoading = TRUE, !.issued = @ + 1,
            !.fetches = @ \cup {[seq |-> d.issued + 1, id |-> id, by |-> by]}]

\* the finally block of the update form handler that awaited the fetch
FinallyOf(d, by) ==
  IF by \in {"add", "edit"} THEN [d EXCEPT !.isSubmittingUpdate = FALSE] ELSE d

\* the route parameter changes under the mounted page: useEffect(..., [id])
RouteChange(id) ==
  /\ id # dp.id
  /\ Planned(dp) < MaxFetches
  /\ dp' = [StartFetch([dp EXCEPT !.id = id], id, "effect") EXCEPT !.step = "route"]
  /\ UNCHANGED <<authVars, pageVars, selVars, formVars, mutVars, csvVars, editVars, notesVars, controlVars>>

\* getPlacementById resolved: setPlacement(data.placement), setError(null),
\* setIsLoading(false), then the awaiting handler's finally
DetailFetchOk(f) ==
  /\ f \in dp.fetches
  /\ dp' = [FinallyOf(dp, f.by) EXCEPT
              !.placement = [id |-> f.id, seq |-> f.seq], !.error = "",
              !.isLoading = FALSE, !.applied = f.seq,
              !.fetches = @ \ {f}, !.step = f.by \o "FetchOk"]
  /\ UNCHANGED <<authVars, pageVars, selVars, formVars, mutVars, csvVars, editVars, notesVars, controlVars>>

\* getPlacementById rejected: setError(message), the toast, setIsLoading(false)
DetailFetchFail(f) ==
  /\ f \in dp.fetches
  /\ dp' = [FinallyOf(dp, f.by) EXCEPT
              !.error = "Failed to load placement details.",
              !.isLoading = FALSE, !.applied = f.seq,
              !.fetches = @ \ {f}, !.step = f.by \o "FetchFail"]
  /\ UNCHANGED <<authVars, pageVars, selVars, formVars, mutVars, csvVars, editVars, notesVars, controlVars>>

\* PlacementHeader's Add Update button: setShowAddUpdateDialog(true)
TriggerAddUpdateDialog ==
  /\ DetailShown(dp)
  /\ ~dp.showAddUpdateDialog /\ ~dp.editingUpdate
  /\ dp' = [dp EXCEPT !.showAddUpdateDialog = TRUE, !.step = "open"]
  /\ UNCHANGED <<authVars, pageVars, selVars, formVars, mutVars, csvVars, editVars, notesVars, controlVars>>

\* handleEditUpdateClick: setEditingUpdate(update)
handleEditUpdateClick ==
  /\ DetailShown(dp)
  /\ ~dp.showAddUpdateDialog /\ ~dp.editingUpdate
  /\ dp' = [dp EXCEPT !.editingUpdate = TRUE, !.step = "open"]
  /\ UNCHANGED <<authVars, pageVars, selVars, formVars, mutVars, csvVars, editVars, notesVars, controlVars>>

\* a message typed into the add-update form
TypeUpdateMessage ==
  /\ DetailShown(dp)
  /\ dp.showAddUpdateDialog
  /\ dp.addDraft = ""
  /\ dp' = [dp EXCEPT !.addDraft = "typed", !.step = "type"]
  /\ UNCHANGED <<authVars, pageVars, selVars, formVars, mutVars, csvVars, editVars, notesVars, controlVars>>

\* onOpenChange(false) of either dialog: Cancel, Escape, a click outside
CloseUpdateDialog ==
  /\ DetailShown(dp)
  /\ dp.showAddUpdateDialog \/ dp.editingUpdate
  /\ dp' = [dp EXCEPT !.showAddUpdateDialog = FALSE, !.editingUpdate = FALSE, !.step = "close"]
  /\ UNCHANGED <<authVars, pageVars, selVars, formVars, mutVars, csvVars, editVars, notesVars, controlVars>>

\* the Add Update submit button (disabled={isSubmitting}) with a valid
\* draft: handleAddUpdateSubmit up to its await
handleAddUpdateSubmitStart ==
  /\ DetailShown(dp)
  /\ dp.showAddUpdateDialog
  /\ dp.addDraft = "typed"
  /\ ~dp.isSubmittingUpdate
  /\ Planned(dp) < MaxFetches
  /\ dp' = [dp EXCEPT !.isSubmittingUpdate = TRUE,
                      !.calls = @ (+) SetToBag({[kind |-> "add", id |-> dp.id]}),
                      !.step = "addSubmit"]
  /\ UNCHANGED <<authVars, pageVars, selVars, formVars, mutVars, csvVars, editVars, notesVars, controlVars>>

\* the Save Changes button of the edit dialog: handleEditUpdateSubmit up to
\* its await
handleEditUpdateSubmitStart ==
  /\ DetailShown(dp)
  /\ dp.editingUpdate
  /\ ~dp.isSubmittingUpdate
  /\ Planned(dp) < MaxFetches
  /\ dp' = [dp EXCEPT !.isSubmittingUpdate = TRUE,
                      !.calls = @ (+) SetToBag({[kind |-> "edit", id |-> dp.id]}),
                      !.step = "editSubmit"]
  /\ UNCHANGED <<authVars, pageVars, selVars, formVars, mutVars, csvVars, editVars, notesVars, controlVars>>

\* handleDeleteUpdate up to its await (the confirmed delete of an update)
handleDeleteUpdateStart ==
  /\ DetailShown(dp)
  /\ ~dp.showAddUpdateDialog /\ ~dp.editingUpdate
  /\ Planned(dp) < MaxFetches
  /\ dp' = [dp EXCEPT !.calls = @ (+) SetToBag({[kind |-> "delete", id |-> dp.id]}),
                      !.step = "deleteStart"]
  /\ UNCHANGED <<authVars, pageVars, selVars, formVars, mutVars, csvVars, editVars, notesVars, controlVars>>

\* the awaited request of handler call c resolved: the toast, the dialog
\* closed (and the add form reset), then fetchPlacementDetails with the
\* handler's id
UpdateCallOk(c) ==
  /\ BagIn(c, dp.calls)
  /\ LET d0 == [dp EXCEPT !.calls = @ (-) SetToBag({c})]
         d1 == CASE c.kind = "add" -> [d0 EXCEPT !.showAddUpdateDialog = FALSE, !.addDraft = ""]
                 [] c.kind = "edit" -> [d0 EXCEPT !.editingUpdate = FALSE]
                 [] OTHER -> d0
     IN dp' = [StartFetch(d1, c.id, c.kind) EXCEPT !.step = c.kind \o "Ok"]
  /\ UNCHANGED <<authVars, pageVars, selVars, formVars, mutVars, csvVars, editVars, notesVars, controlVars>>

\* the catch of the update form handlers without their finally block
UpdateCallFail_NoFinally(c) ==
  /\ BagIn(c, dp.calls)
  /\ dp' = [dp EXCEPT !.calls = @ (-) SetToBag({c}), !.step = c.kind \o "Fail"]
  /\ UNCHANGED <<authVars, pageVars, selVars, formVars, mutVars, csvVars, editVars, notesVars, controlVars>>

\* the awaited request of handler call c rejected: the toast, then finally
UpdateCallFail(c) ==
  /\ BagIn(c, dp.calls)
  /\ dp' = [FinallyOf(dp, c.kind) EXCEPT !.calls = @ (-) SetToBag({c}), !.step = c.kind \o "Fail"]
  /\ UNCHANGED <<authVars, pageVars, selVars, formVars, mutVars, csvVars, editVars, notesVars, controlVars>>

\* an admin opens the detail page of placement X: the first render and the
\* first run of the effect
InitDetail ==
  /\ storage = "tokA"
  /\ token = storage
  /\ user = UserOf(storage)
  /\ meInFlight = [t \in Tokens |-> 0]
  /\ isLoading = FALSE
  /\ authInFlight = [k \in AuthKinds |-> 0]
  /\ profInFlight = "idle"
  /\ lastEvent = Event("loginOk", storage, FALSE, "")
  /\ epoch = "loggedIn"
  /\ page = "detail"
  /\ dialog = "none"
  /\ offered = ""
  /\ lastReq = NoReq
  /\ selStatus = "loading"
  /\ selBody = NoBody
  /\ selections = << >>
  /\ showAddDialog = FALSE
  /\ editingSelection = 0
  /\ selDraft = DefaultDraft
  /\ selErrors = {}
  /\ selPending = {}
  /\ currentDeletingId = 0
  /\ selStep = NoStep
  /\ formOpen = "none"
  /\ formDraft = NoDraft
  /\ formErrors = {}
  /\ formPhase = "idle"
  /\ formStep = NoFormStep
  /\ cache = NoCache
  /\ detail = NoDetail
  /\ detailFetch = 0
  /\ mutPending = NoPending
  /\ mutStep = NoMutStep
  /\ csv = NoCsv
  /\ ep = NoEp
  /\ iv = NoIv
  /\ sc = NoSc
  /\ dp = [id |-> "X", placement |-> NoData, isLoading |-> TRUE, error |-> "",
           isSubmittingUpdate |-> FALSE, showAddUpdateDialog |-> FALSE,
           editingUpdate |-> FALSE, addDraft |-> "", calls |-> EmptyBag,
           fetches |-> {[seq |-> 1, id |-> "X", by |-> "effect"]},
           issued |-> 1, applied |-> 0, step |-> "mount"]

NextDetail ==
  \/ \E id \in RouteIds : RouteChange(id)
  \/ \E f \in dp.fetches : DetailFetchOk(f)
  \/ \E f \in dp.fetches : DetailFetchFail(f)
  \/ TriggerAddUpdateDialog
  \/ handleEditUpdateClick
  \/ TypeUpdateMessage
  \/ CloseUpdateDialog
  \/ handleAddUpdateSubmitStart
  \/ handleEditUpdateSubmitStart
  \/ handleDeleteUpdateStart
  \/ \E c \in BagToSet(dp.calls) : UpdateCallOk(c)
  \/ \E c \in BagToSet(dp.calls) : UpdateCallFail(c)

SpecDetail == InitDetail /\ [][NextDetail]_vars

\* the callers of fetchPlacementDetails
FetchCallers == {"effect", "add", "edit", "delete"}

\* every request and every fetch in flight is eventually answered: the
\* requests of each handler and the fetches of each caller on their own
SpecDetailLive ==
  /\ InitDetail
  /\ [][NextDetail]_vars
  /\ \A by \in FetchCallers :
       WF_vars(\E f \in dp.fetches : f.by = by /\ (DetailFetchOk(f) \/ DetailFetchFail(f)))
  /\ \A k \in FetchCallers :
       WF_vars(\E c \in BagToSet(dp.calls) : c.kind = k /\ (UpdateCallOk(c) \/ UpdateCallFail(c)))

\* C23 (as claimed): once every outstanding fetch of the detail page has
\* completed, what is displayed was set by the most recently issued fetch,
\* and a displayed placement is the one the route names
C23_LatestFetchWins ==
  dp.fetches = {} =>
    /\ dp.applied = dp.issued
    /\ (dp.error = "" /\ dp.placement # NoData) => dp.placement.id = dp.id

\* C26: a valid submission of the add-update or edit-update form sets
\* isSubmittingUpdate; on success the dialog is closed and the add draft is
\* back at its defaults when the refetch starts, with the flag still set;
\* and, every request and fetch being answered, the flag always returns to
\* false, on the success and on the failure path
C26_UpdateFormReturnsToIdle ==
  /\ [](dp.step \in {"addSubmit", "editSubmit"} => dp.isSubmittingUpdate)
  /\ [](dp.step = "addOk" =>
          /\ ~dp.showAddUpdateDialog /\ dp.addDraft = ""
          /\ dp.isSubmittingUpdate
          /\ \E f \in dp.fetches : f.seq = dp.issued /\ f.by = "add")
  /\ [](dp.step = "editOk" =>
          /\ ~dp.editingUpdate
          /\ dp.isSubmittingUpdate
          /\ \E f \in dp.fetches : f.seq = dp.issued /\ f.by = "edit")
  /\ [](dp.step \in {"addFail", "editFail", "addFetchOk", "addFetchFail",
                     "editFetchOk", "editFetchFail"} => ~dp.isSubmittingUpdate)
  /\ (dp.isSubmittingUpdate ~> ~dp.isSubmittingUpdate)

\* an add-update submission has succeeded, its refetch has been answered
\* and the form is idle again
C26_Witness ==
  /\ dp.step = "addFetchOk"
  /\ ~dp.isSubmittingUpdate
  /\ ~dp.showAddUpdateDialog /\ dp.addDraft = ""

(***************************************************************************)
(* EditPlacementPage: the ['placement', id] query, the effect that resets  *)
(* the form from placementData, and the update mutation                    *)
(***************************************************************************)
\* versions of the placement the server may come to hold while the page is
\* open, and the edits a user makes to the form
MaxVersions == 3
MaxEdits == 2

\* the form is rendered: past the loader, the error view and "not found"
EditShown(e) == e.mounted /\ e.data # 0 /\ ~e.error

\* useEffect(..., [placementData, form]): form.reset(defaultValues) when
\* placementData is a new object holding a placement
ResetOnData(e, data) ==
  IF data # e.data /\ data # 0
  THEN [e EXCEPT !.data = data, !.draft = [from |-> data, typed |-> 0]]
  ELSE [e EXCEPT !.data = data]

\* getPlacementById resolved: the query's data (kept as the same object by
\* structural sharing when the answer is equal), then the effect
EditFetchOk ==
  /\ ep.mounted /\ ep.fetching
  /\ ep' = [ResetOnData(ep, ep.server) EXCEPT
              !.fetching = FALSE, !.error = FALSE,
              !.step = IF ep.server # ep.data THEN "dataArrived" ELSE "dataSame"]
  /\ UNCHANGED <<authVars, pageVars, selVars, formVars, mutVars, csvVars, detailVars, notesVars, controlVars>>

\* getPlacementById rejected: fetchError, the data is kept
EditFetchFail ==
  /\ ep.mounted /\ ep.fetching
  /\ ep' = [ep EXCEPT !.fetching = FALSE, !.error = TRUE, !.step = "fetchFail"]
  /\ UNCHANGED <<authVars, pageVars, selVars, formVars, mutVars, csvVars, detailVars, notesVars, controlVars>>

\* the query fetches again in the background: the window regains focus or
\* the network reconnects (the defaults of new QueryClient())
EditRefetch ==
  /\ ep.mounted /\ ~ep.fetching
  /\ ep.data # 0 \/ ep.error
  /\ ep' = [ep EXCEPT !.fetching = TRUE, !.step = "refetch"]
  /\ UNCHANGED <<authVars, pageVars, selVars, formVars, mutVars, csvVars, detailVars, notesVars, controlVars>>

\* the placement changes on the server: another session saves it
ServerChange ==
  /\ ep.mounted
  /\ ep.server < MaxVersions
  /\ ep' = [ep EXCEPT !.server = @ + 1, !.step = "serverChange"]
  /\ UNCHANGED <<authVars, pageVars, selVars, formVars, mutVars, csvVars, detailVars, notesVars, controlVars>>

\* the user changes a field of the rendered form
EditField ==
  /\ EditShown(ep)
  /\ ep.draft.typed < MaxEdits
  /\ ep' = [ep EXCEPT !.draft.typed = @ + 1, !.step = "type"]
  /\ UNCHANGED <<authVars, pageVars, selVars, formVars, mutVars, csvVars, detailVars, notesVars, controlVars>>

\* the submit button (disabled={mutation.isPending}): onSubmit,
\* mutation.mutate(payload)
EditSave ==
  /\ EditShown(ep)
  /\ ~ep.saving
  /\ ep' = [ep EXCEPT !.saving = TRUE, !.step = "save"]
  /\ UNCHANGED <<authVars, pageVars, selVars, formVars, mutVars, csvVars, detailVars, notesVars, controlVars>>

\* updatePlacement resolved: the toast, the two invalidations,
\* navigate(`/placements/${id}`) unmounts the page
EditSaveOk ==
  /\ ep.mounted /\ ep.saving
  /\ ep' = [ep EXCEPT !.saving = FALSE, !.mounted = FALSE, !.fetching = FALSE,
                      !.step = "saved"]
  /\ UNCHANGED <<authVars, pageVars, selVars, formVars, mutVars, csvVars, detailVars, notesVars, controlVars>>

\* updatePlacement rejected: the toast
EditSaveFail ==
  /\ ep.mounted /\ ep.saving
  /\ ep' = [ep EXCEPT !.saving = FALSE, !.step = "saveFail"]
  /\ UNCHANGED <<authVars, pageVars, selVars, formVars, mutVars, csvVars, detailVars, notesVars, controlVars>>

\* an admin opens the edit page: the form holds its defaults and the query
\* has started to fetch
InitEdit ==
  /\ storage = "tokA"
  /\ token = storage
  /\ user = UserOf(storage)
  /\ meInFlight = [t \in Tokens |-> 0]
  /\ isLoading = FALSE
  /\ authInFlight = [k \in AuthKinds |-> 0]
  /\ profInFlight = "idle"
  /\ lastEvent = Event("loginOk", storage, FALSE, "")
  /\ epoch = "loggedIn"
  /\ page = "edit"
  /\ dialog = "none"
  /\ offered = ""
  /\ lastReq = NoReq
  /\ selStatus = "loading"
  /\ selBody = NoBody
  /\ selections = << >>
  /\ showAddDialog = FALSE
  /\ editingSelection = 0
  /\ selDraft = DefaultDraft
  /\ selErrors = {}
  /\ selPending = {}
  /\ currentDeletingId = 0
  /\ selStep = NoStep
  /\ formOpen = "none"
  /\ formDraft = NoDraft
  /\ formErrors = {}
  /\ formPhase = "idle"
  /\ formStep = NoFormStep
  /\ cache = NoCache
  /\ detail = NoDetail
  /\ detailFetch = 0
  /\ mutPending = NoPending
  /\ mutStep = NoMutStep
  /\ csv = NoCsv
  /\ dp = NoDp
  /\ iv = NoIv
  /\ sc = NoSc
  /\ ep = [id |-> "X", server |-> 1, data |-> 0, fetching |-> TRUE, error |-> FALSE,
           draft |-> [from |-> 0, typed |-> 0], saving |-> FALSE,
           mounted |-> TRUE, step |-> "mount"]

NextEdit ==
  \/ EditFetchOk
  \/ EditFetchFail
  \/ EditRefetch
  \/ ServerChange
  \/ EditField
  \/ EditSave
  \/ EditSaveOk
  \/ EditSaveFail

SpecEdit == InitEdit /\ [][NextEdit]_vars

\* C24 (as claimed): once the form has been populated, values the user has
\* entered and not saved are never replaced by a later arrival of placement
\* data: a draft holding user input changes only by user input
C24_DraftSurvivesRefetch ==
  [][ (ep.mounted /\ ep.draft.from # 0 /\ ep.draft.typed > 0 /\ ep'.draft # ep.draft)
        => ep'.step = "type" ]_vars

(***************************************************************************)
(* The submit controls of the forms and the flags that disable them        *)
(***************************************************************************)
\* requests and awaited refetches outstanding at one time
MaxOutstanding == 3

\* the forms that send a mutation request
UpdateDialogForms == {"addUpdate", "editUpdate"}
OwnPageForms == {"addPlacement", "editPlacement"}
ParentFlagForms == {"addInterview", "editInterview", "addSelection", "editSelection"}
SubmitForms == UpdateDialogForms \cup OwnPageForms \cup ParentFlagForms

\* the flag in the disabled attribute of each form's submit button: the
\* update dialogs both receive isSubmitting={isSubmittingUpdate}, every
\* other form reads isPending of its own mutation
FlagOf(fm) == IF fm \in UpdateDialogForms THEN "isSubmittingUpdate" ELSE fm

SubmitFlags == {FlagOf(fm) : fm \in SubmitForms}

\* everything still to be answered
Unanswered(c) ==
  LET RECURSIVE Sum(_)
      Sum(S) == IF S = {} THEN 0
                ELSE LET fm == CHOOSE x \in S : TRUE
                     IN c.requests[fm] + c.refetch[fm] + c.orphans[fm] + Sum(S \ {fm})
  IN Sum(SubmitForms)

\* a page or a dialog is opened
OpenControl(fm) ==
  /\ sc.open = "none"
  /\ sc' = [sc EXCEPT !.step = "open", !.open = fm]
  /\ UNCHANGED <<authVars, pageVars, selVars, formVars, mutVars, csvVars, detailVars, editVars, notesVars>>

\* a dialog is closed (its flag lives in the parent and stays), or a page is
\* left (its useMutation is gone: a request in flight loses its observer)
CloseControl ==
  /\ sc.open # "none"
  /\ sc' = IF sc.open \in OwnPageForms
           THEN [sc EXCEPT !.step = "close", !.open = "none",
                           !.orphans[sc.open] = @ + sc.requests[sc.open],
                           !.requests[sc.open] = 0,
                           !.flag[FlagOf(sc.open)] = FALSE]
           ELSE [sc EXCEPT !.step = "close", !.open = "none"]
  /\ UNCHANGED <<authVars, pageVars, selVars, formVars, mutVars, csvVars, detailVars, editVars, notesVars>>

\* a submit button that is never disabled
SubmitControl_NotDisabled(fm) ==
  /\ sc.open = fm
  /\ Unanswered(sc) < MaxOutstanding
  /\ sc' = [sc EXCEPT !.step = "submit", !.flag[FlagOf(fm)] = TRUE, !.requests[fm] = @ + 1]
  /\ UNCHANGED <<authVars, pageVars, selVars, formVars, mutVars, csvVars, detailVars, editVars, notesVars>>

\* <Button type="submit" disabled={flag}> of the open form with valid
\* values: the flag is set and the request leaves
SubmitControl(fm) ==
  /\ sc.open = fm
  /\ ~sc.flag[FlagOf(fm)]
  /\ Unanswered(sc) < MaxOutstanding
  /\ sc' = [sc EXCEPT !.step = "submit", !.flag[FlagOf(fm)] = TRUE, !.requests[fm] = @ + 1]
  /\ UNCHANGED <<authVars, pageVars, selVars, formVars, mutVars, csvVars, detailVars, editVars, notesVars>>

\* the request of form fm resolved: an update form closes its dialog and
\* awaits fetchPlacementDetails with the flag still set; a mutation's
\* isPending falls and its onSuccess closes the dialog or leaves the page
ControlOk(fm) ==
  /\ sc.requests[fm] > 0
  /\ LET closed == IF sc.open = fm THEN "none" ELSE sc.open
     IN sc' = IF fm \in UpdateDialogForms
              THEN [sc EXCEPT !.step = "ok", !.requests[fm] = @ - 1, !.refetch[fm] = @ + 1,
                              !.open = closed]
              ELSE IF fm \in OwnPageForms
              THEN [sc EXCEPT !.step = "ok", !.orphans[fm] = @ + sc.requests[fm] - 1,
                              !.requests[fm] = 0,
                              !.flag[FlagOf(fm)] = FALSE,
                              !.open = closed]
              ELSE [sc EXCEPT !.step = "ok", !.requests[fm] = @ - 1,
                              !.flag[FlagOf(fm)] = FALSE,
                              !.open = closed]
  /\ UNCHANGED <<authVars, pageVars, selVars, formVars, mutVars, csvVars, detailVars, editVars, notesVars>>

\* the request of form fm rejected: the toast; finally, or isPending falls
ControlFail(fm) ==
  /\ sc.requests[fm] > 0
  /\ sc' = [sc EXCEPT !.step = "fail", !.requests[fm] = @ - 1, !.flag[FlagOf(fm)] = FALSE]
  /\ UNCHANGED <<authVars, pageVars, selVars, formVars, mutVars, csvVars, detailVars, editVars, notesVars>>

\* the fetch awaited by an update handler has completed: finally
RefetchDone(fm) ==
  /\ sc.refetch[fm] > 0
  /\ sc' = [sc EXCEPT !.step = "refetched", !.refetch[fm] = @ - 1, !.flag[FlagOf(fm)] = FALSE]
  /\ UNCHANGED <<authVars, pageVars, selVars, formVars, mutVars, csvVars, detailVars, editVars, notesVars>>

\* the request of a page that was left is answered
OrphanDone(fm) ==
  /\ sc.orphans[fm] > 0
  /\ sc' = [sc EXCEPT !.step = "orphanDone", !.orphans[fm] = @ - 1]
  /\ UNCHANGED <<authVars, pageVars, selVars, formVars, mutVars, csvVars, detailVars, editVars, notesVars>>

\* an admin session with no form open and nothing in flight
InitSubmit ==
  /\ storage = "tokA"
  /\ token = storage
  /\ user = UserOf(storage)
  /\ meInFlight = [t \in Tokens |-> 0]
  /\ isLoading = FALSE
  /\ authInFlight = [k \in AuthKinds |-> 0]
  /\ profInFlight = "idle"
  /\ lastEvent = Event("loginOk", storage, FALSE, "")
  /\ epoch = "loggedIn"
  /\ page = "detail"
  /\ dialog = "none"
  /\ offered = ""
  /\ lastReq = NoReq
  /\ selStatus = "loading"
  /\ selBody = NoBody
  /\ selections = << >>
  /\ showAddDialog = FALSE
  /\ editingSelection = 0
  /\ selDraft = DefaultDraft
  /\ selErrors = {}
  /\ selPending = {}
  /\ currentDeletingId = 0
  /\ selStep = NoStep
  /\ formOpen = "none"
  /\ formDraft = NoDraft
  /\ formErrors = {}
  /\ formPhase = "idle"
  /\ formStep = NoFormStep
  /\ cache = NoCache
  /\ detail = NoDetail
  /\ detailFetch = 0
  /\ mutPending = NoPending
  /\ mutStep = NoMutStep
  /\ csv = NoCsv
  /\ dp = NoDp
  /\ ep = NoEp
  /\ iv = NoIv
  /\ sc = [open |-> "none",
           flag |-> [f \in SubmitFlags |-> FALSE],
           requests |-> [fm \in SubmitForms |-> 0],
           refetch |-> [fm \in SubmitForms |-> 0],
           orphans |-> [fm \in SubmitForms |-> 0],
           step |-> "mount"]

NextSubmit ==
  \/ \E fm \in SubmitForms : OpenControl(fm)
  \/ CloseControl
  \/ \E fm \in SubmitForms : SubmitControl(fm)
  \/ \E fm \in SubmitForms : ControlOk(fm)
  \/ \E fm \in SubmitForms : ControlFail(fm)
  \/ \E fm \in SubmitForms : RefetchDone(fm)
  \/ \E fm \in SubmitForms : OrphanDone(fm)

SpecSubmit == InitSubmit /\ [][NextSubmit]_vars

\* C25: while a form's flag is true no second request is issued from it: a
\* request leaves a form only when its flag was false and the form had none
\* in flight, a form with a request in flight has its flag set, and the two
\* update forms, sharing isSubmittingUpdate, never have more than one
\* request or awaited refetch between them
C25_NoSecondRequestWhilePending ==
  [][ /\ \A fm \in SubmitForms :
           sc'.requests[fm] > sc.requests[fm] =>
             /\ ~sc.flag[FlagOf(fm)]
             /\ sc.requests[fm] = 0
      /\ \A g \in SubmitForms :
           sc'.requests[g] > 0 => /\ sc'.requests[g] = 1
                                  /\ sc'.flag[FlagOf(g)]
      /\ sc'.requests["addUpdate"] + sc'.requests["editUpdate"]
           + sc'.refetch["addUpdate"] + sc'.refetch["editUpdate"] <= 1 ]_vars

\* the add-update request is in flight and the edit-update dialog is open:
\* its submit button is disabled by the shared flag
C25_Witness ==
  /\ sc.open = "editUpdate"
  /\ sc.requests["addUpdate"] = 1
  /\ sc.flag["isSubmittingUpdate"]

\* C27: a step in which login or signup fails leaves the stored token, the
\* in-memory token and the user as they were, ends with isLoading false,
\* shows one error notice (the server's message or the fallback) and raises
\* the error to the caller
C27_AuthFailureLeavesSession ==
  [][ (\E k \in AuthKinds : /\ authInFlight'[k] < authInFlight[k]
                            /\ lastEvent'.op = k \o "Fail")
        => /\ storage' = storage
           /\ token' = token
           /\ user' = user
           /\ isLoading' = FALSE
           /\ lastEvent'.toast \in FailMessages
           /\ lastEvent'.raised ]_vars

\* a login has failed while a session was held: the session is still there
C27_Witness ==
  /\ lastEvent.op = "loginFail"
  /\ lastEvent.raised
  /\ storage # NoToken
  /\ token = storage
  /\ IsAuthenticated(user)
  /\ ~isLoading

\* C30: in every state of the session holder the stored token equals the
\* in-memory token, both absent or both the same value
C30_StoredTokenIsMemoryToken ==
  storage = token

\* a login or signup has just written the same token to both, and the
\* restore for the new in-memory token is in flight
C30_Witness ==
  /\ lastEvent.op \in {"loginOk", "signupOk"}
  /\ storage # NoToken
  /\ storage = token
  /\ storage = lastEvent.tok
  /\ meInFlight[storage] > 0

\* C28 (as claimed): when the edit form has loaded a placement, every
\* comma-separated list the placement holds is shown in the form, joined
\* with a comma and a space, in the field of its name or, for the drive
\* rounds, in the selection-process field the page maps them to; so a
\* selection process that arrived as a legacy comma-separated string is
\* shown as the same text as the same list arriving as an array
C28_EditFormShowsEveryList ==
  csv.stage = "loaded" =>
    /\ \A fd \in CsvFields \ {"driveRounds"} :
         (csv.stored[fd].defined /\ (fd = "selectionProcess" => ~csv.stored.driveRounds.defined))
           => csv.data[fd] = ListToField(csv.stored[fd].list)
    /\ csv.stored.driveRounds.defined =>
         ListToField(csv.stored.driveRounds.list) \in {csv.data.driveRounds, csv.data.selectionProcess}

(***************************************************************************)
(* PlacementInterviews: the additionalNotes text of the add and edit       *)
(* forms, the list sent, the list stored                                   *)
(***************************************************************************)
\* the characters of a notes text
NotesAlphabet == {"a", " ", "\n"}

\* the texts a user may type into additionalNotes
NotesInputs == UNION {[1..n -> NotesAlphabet] : n \in 0..MaxChars}

\* the notes an interview may hold, and the lists of them
StoredNotes == {<<"a">>, <<"b">>, <<"a", " ", "b">>}
StoredNoteLists == UNION {[1..n -> StoredNotes] : n \in 0..2}

\* additionalNotes: data.additionalNotes ? [data.additionalNotes] : []
NotesPayload(text) == IF text # << >> THEN <<text>> ELSE << >>

\* interview.additionalNotes?.join('\n') || ''
NotesField(list) == JoinStr(list, <<"\n">>)

\* handleAddSubmit: the payload handed to addMutation.mutate
InterviewAddSubmit ==
  /\ iv.stage = "typed"
  /\ iv' = [iv EXCEPT !.stage = "added", !.payload = NotesPayload(iv.input)]
  /\ UNCHANGED <<authVars, pageVars, selVars, formVars, mutVars, csvVars, detailVars, editVars, controlVars>>

\* addMutation's onSuccess invalidates ['interviews', placementId]; the
\* query returns the interview with the notes as they were sent
InterviewAdded ==
  /\ iv.stage = "added"
  /\ iv' = [iv EXCEPT !.stage = "stored", !.stored = iv.payload]
  /\ UNCHANGED <<authVars, pageVars, selVars, formVars, mutVars, csvVars, detailVars, editVars, controlVars>>

\* handleEdit: setEditingInterview(interview), editInterviewForm.reset
InterviewEdit ==
  /\ iv.stage = "stored"
  /\ iv' = [iv EXCEPT !.stage = "loaded", !.data = NotesField(iv.stored)]
  /\ UNCHANGED <<authVars, pageVars, selVars, formVars, mutVars, csvVars, detailVars, editVars, controlVars>>

\* handleEditSubmit with the form as handleEdit filled it
InterviewEditSubmit ==
  /\ iv.stage = "loaded"
  /\ iv' = [iv EXCEPT !.stage = "edited", !.payload = NotesPayload(iv.data)]
  /\ UNCHANGED <<authVars, pageVars, selVars, formVars, mutVars, csvVars, detailVars, editVars, controlVars>>

\* an admin on the detail page: the add dialog holding any notes text, or
\* the list showing an interview with any stored notes
InitNotes ==
  /\ storage = "tokA"
  /\ token = storage
  /\ user = UserOf(storage)
  /\ meInFlight = [t \in Tokens |-> 0]
  /\ isLoading = FALSE
  /\ authInFlight = [k \in AuthKinds |-> 0]
  /\ profInFlight = "idle"
  /\ lastEvent = Event("loginOk", storage, FALSE, "")
  /\ epoch = "loggedIn"
  /\ page = "detail"
  /\ dialog = "none"
  /\ offered = ""
  /\ lastReq = NoReq
  /\ selStatus = "loading"
  /\ selBody = NoBody
  /\ selections = << >>
  /\ showAddDialog = FALSE
  /\ editingSelection = 0
  /\ selDraft = DefaultDraft
  /\ selErrors = {}
  /\ selPending = {}
  /\ currentDeletingId = 0
  /\ selStep = NoStep
  /\ formOpen = "none"
  /\ formDraft = NoDraft
  /\ formErrors = {}
  /\ formPhase = "idle"
  /\ formStep = NoFormStep
  /\ cache = NoCache
  /\ detail = NoDetail
  /\ detailFetch = 0
  /\ mutPending = NoPending
  /\ mutStep = NoMutStep
  /\ csv = NoCsv
  /\ dp = NoDp
  /\ ep = NoEp
  /\ sc = NoSc
  /\ \/ \E text \in NotesInputs :
          iv = [stage |-> "typed", input |-> text, payload |-> << >>,
                stored |-> << >>, data |-> << >>]
     \/ \E list \in StoredNoteLists :
          iv = [stage |-> "stored", input |-> << >>, payload |-> << >>,
                stored |-> list, data |-> << >>]

NextNotes ==
  \/ InterviewAddSubmit
  \/ InterviewAdded
  \/ InterviewEdit
  \/ InterviewEditSubmit

SpecNotes == InitNotes /\ [][NextNotes]_vars

\* C29 (as claimed): an interview opened in the edit dialog and saved
\* unchanged sends an additionalNotes list equal to the stored one, and an
\* add-interview submission sends one element per non-empty line of the
\* text, trimmed
C29_NotesRoundTrip ==
  /\ iv.stage = "edited" => iv.payload = iv.stored
  /\ iv.stage = "added" => iv.payload = SplitTrimFilter(iv.input, "\n")

=============================================================================
